---- MODULE Spec2Model ----
(***************************************************************************)
(* State-machine model of the client-side orchestration layer of the      *)
(* crew-roster dashboard: the disruption chat (DisruptionChatbot), the    *)
(* per-crew detail drill-down (CrewDetailsModal, opened from CrewList),   *)
(* the flights list (FlightsList), the crew list (CrewList), the Index    *)
(* view and the roster view (RosterView).                                 *)
(*                                                                         *)
(* Every React state cell is a variable.  An async handler is split at    *)
(* its awaits: the part that runs synchronously when the handler is       *)
(* called is one action, and each resumption after an awaited fetch is    *)
(* one action that consumes the outcome of that fetch.  A fetch has three *)
(* outcomes, as window.fetch followed by response.json() have:            *)
(*   "ok"         a 2xx response whose JSON body has the documented shape *)
(*   "http_error" a non-2xx response whose body is JSON without the       *)
(*                documented fields (fetch resolves, json() resolves)     *)
(*   "throw"      the request is rejected, or the body is not JSON        *)
(* The variables whose names end in Event, Issued or Started, `toast`,    *)
(* `latestWrote` and `newestResponse` are observers: they record which     *)
(* handler ran last and what it did, and never influence the program's     *)
(* state.                                                                  *)
(***************************************************************************)
EXTENDS Integers, Sequences, FiniteSets, TLC

VARIABLES
    \* ---- DisruptionChatbot (src/unnamed/part_002) ----
    messages,        \* ChatMessage[]                        (line 33)
    currentMessage,  \* the staged input text                (line 42)
    isLoading,       \* pending flag                         (line 43)
    chatRequests,    \* chat requests in flight, oldest first (line 60)
    chatIssued,      \* observer: number of chat requests issued so far
    chatEvent,       \* observer: the last chat handler that ran
    toast,           \* observer: the toast.error the last handler raised, if any
    \* ---- CrewList (src/unnamed/part_001), the parent of the modal ----
    selectedCrewId,  \* string | null                        (line 39)
    isModalOpen,     \*                                      (line 40)
    \* ---- CrewDetailsModal (src/src/components/SystemStatus.tsx) ----
    crewDetails,     \* CrewMember | null                    (line 287)
    schedule,        \* CrewSchedule[]                       (line 288)
    preferences,     \* CrewPreference[]                     (line 289)
    flightAssignments, \* FlightAssignment[]                 (line 290)
    violations,      \* ViolationDetail[]                    (line 291)
    loading,         \*                                      (line 293)
    loads,           \* the calls of fetchCrewDetails that are at an await
    loadsStarted,    \* observer: number of calls of fetchCrewDetails so far
    latestWrote,     \* observer: the sections the newest load has written
    crewEvent,       \* observer: the last handler of the drill-down that ran
    \* ---- FlightsList (src/src/components/FlightsList.tsx) ----
    flights,         \* Flight[]                             (line 22)
    filteredFlights, \* Flight[]                             (line 23)
    flightsLoading,  \* `loading`                            (line 24)
    searchTerm,      \*                                      (line 25)
    originFilter,    \*                                      (line 26)
    destinationFilter, \*                                    (line 27)
    aircraftFilter,  \*                                      (line 28)
    dateFilter,      \*                                      (line 29)
    currentPage,     \*                                      (line 30)
    totalFlights,    \*                                      (line 31)
    spinnerShown,    \* the committed render is the spinner of lines 99-105
    flightRequests,  \* the calls of fetchFlights that are at the await of line 59
    flightsIssued,   \* observer: number of calls of fetchFlights so far
    newestResponse,  \* observer: <<>>, or <<what the response of the newest
                     \* call of fetchFlights made the view store>>
    \* ---- CrewList (src/unnamed/part_001), the list itself ----
    crewMembers,     \* CrewMember[]                         (line 32)
    filteredCrew,    \* CrewMember[]                         (line 33)
    crewListLoading, \* `loading`                            (line 34)
    crewSearchTerm,  \* `searchTerm`                         (line 35)
    selectedBase,    \*                                      (line 36)
    selectedRank,    \*                                      (line 37)
    selectedAircraft, \*                                     (line 38)
    crewListRequests, \* number of calls of fetchCrewMembers at the await of line 53
    crewListMounted, \* the effects of lines 42-48 have run once
    crewListCrashed, \* the filter effect threw and the tree was unmounted
    crewListEvent,   \* observer: the last step: the outcome of the fetch that
                     \* settled, "clear" for Clear Filters, "none" otherwise
    \* ---- Index (src/unnamed/part_000) ----
    dashRosterData,  \* `rosterData`: <<>> for null, else <<RosterResponse>> (line 100)
    rosterHistory,   \* RosterHistoryItem[]                  (line 101)
    dashLoading,     \* `loading`                            (line 102)
    startDate,       \*                                      (line 103)
    endDate,         \*                                      (line 104)
    events,          \* calendar events                      (line 107)
    dashCalls,       \* the calls of generateRoster, deleteRoster and
                     \* fetchRosterHistory that are at an await
    dashIssued,      \* observer: number of calls the user or the mount started
    dashEvent,       \* observer: the last handler of the view that ran
    \* ---- RosterView (src/src/components/RosterView.tsx) ----
    viewRosterHistory, \* `rosterHistory`                    (line 49)
    selectedRoster,  \* <<>> for null, else <<RosterDetails>> (line 50)
    viewLoading,     \* `loading`                            (line 51)
    detailsLoading,  \*                                      (line 52)
    viewCalls,       \* the calls of fetchRosterHistory and fetchRosterDetails
                     \* that are at an await, oldest first
    viewIssued,      \* observer: number of calls the user or the mount started
    viewCrashed,     \* the render threw and the tree was unmounted
    viewEvent        \* observer: the last handler of the view that ran

chatVars == <<messages, currentMessage, isLoading, chatRequests, chatIssued, chatEvent>>

crewVars ==
    <<selectedCrewId, isModalOpen, crewDetails, schedule, preferences,
      flightAssignments, violations, loading, loads, loadsStarted,
      latestWrote, crewEvent>>

flightsVars ==
    <<flights, filteredFlights, flightsLoading, searchTerm, originFilter,
      destinationFilter, aircraftFilter, dateFilter, currentPage, totalFlights,
      spinnerShown, flightRequests, flightsIssued, newestResponse>>

crewListVars ==
    <<crewMembers, filteredCrew, crewListLoading, crewSearchTerm, selectedBase,
      selectedRank, selectedAircraft, crewListRequests, crewListMounted,
      crewListCrashed, crewListEvent>>

dashVars ==
    <<dashRosterData, rosterHistory, dashLoading, startDate, endDate, events,
      dashCalls, dashIssued, dashEvent>>

rosterViewVars ==
    <<viewRosterHistory, selectedRoster, viewLoading, detailsLoading, viewCalls,
      viewIssued, viewCrashed, viewEvent>>

\* What the handlers of one view leave alone.
nonChatVars == <<crewVars, flightsVars, crewListVars, dashVars, rosterViewVars>>
nonCrewVars == <<chatVars, flightsVars, crewListVars, dashVars, rosterViewVars>>
nonFlightsVars == <<chatVars, crewVars, crewListVars, dashVars, rosterViewVars>>
nonCrewListVars == <<chatVars, crewVars, flightsVars, dashVars, rosterViewVars>>
nonDashVars == <<chatVars, crewVars, flightsVars, crewListVars, rosterViewVars>>
nonRosterViewVars == <<chatVars, crewVars, flightsVars, crewListVars, dashVars>>

vars ==
    <<chatVars, toast, crewVars, flightsVars, crewListVars, dashVars,
      rosterViewVars>>

----------------------------------------------------------------------------
(* Bounds of the model *)

\* Number of chat submits accepted in one behaviour.
MaxSubmits == 2

\* Number of crew detail loads started in one behaviour.
MaxLoads == 2

\* Number of calls of fetchFlights in one behaviour.
MaxFetches == 3

\* Length of the crew lists the backend sends.
MaxCrewLen == 3

\* Number of violations and of flights in a generated roster.
MaxViolations == 3
MaxRosterLen == 11

\* Number of calls the user or the mount effect starts in the Index view.
MaxDashCalls == 2

\* Number of calls the user or the mount effect starts in the roster view.
MaxViewCalls == 3

----------------------------------------------------------------------------
(* Values *)

\* JavaScript `undefined` where a text or a list is read from a body that
\* lacks the field.
UNDEFINED == <<"<undefined>">>

\* No notification.
noToast == ""

\* The three outcomes of `await fetch(...)` followed by `await response.json()`.
Outcomes == {"ok", "http_error", "throw"}

(***************************************************************************)
(* A text is a sequence of units; a unit is the whitespace character " "  *)
(* or a run of text that neither starts nor ends with whitespace.          *)
(***************************************************************************)
IsSpace(u) == u = " "

RECURSIVE StripLeft(_)
StripLeft(s) ==
    IF s = <<>> THEN s
    ELSE IF IsSpace(Head(s)) THEN StripLeft(Tail(s)) ELSE s

RECURSIVE StripRight(_)
StripRight(s) ==
    IF s = <<>> THEN s
    ELSE IF IsSpace(s[Len(s)]) THEN StripRight(SubSeq(s, 1, Len(s) - 1)) ELSE s

\* String.prototype.trim
trim(s) == StripRight(StripLeft(s))

\* Texts the user can type into the input box.
TypedTexts == { <<>>, <<" ">>, <<"a">>, <<" ", "a", " ">> }

\* The texts of the three "Quick Examples" buttons.
QuickExamples ==
    { <<"FO002 called in sick for tomorrow">>,
      <<"Find replacement for CP001 on flight 6E101">>,
      <<"Check DGCA compliance for current roster">> }

----------------------------------------------------------------------------
(* DisruptionChatbot *)

greeting ==
    <<"Hello! I'm your IndiGo Disruption Management Assistant. I can help you handle crew disruptions, find replacements, and ensure DGCA compliance. How can I assist you today?">>

\* The seed assistant greeting of useState (lines 33-41) and clearChat.
seedMessage ==
    [ type |-> "bot", content |-> greeting,
      suggestedActions |-> <<"analyze_disruption", "view_roster", "check_compliance">> ]

apology ==
    <<"I apologize, but I'm having trouble processing your request right now. Please try again later.">>

\* Bodies the chat endpoint answers a 2xx with.
ChatReplies ==
    { [ response |-> <<"reply-1">>, suggested_actions |-> <<"view_roster", "escalate">> ],
      [ response |-> <<"reply-2">>, suggested_actions |-> <<>> ] }

\* The body of a non-2xx answer: JSON without `response`/`suggested_actions`.
errorBody == [ response |-> UNDEFINED, suggested_actions |-> UNDEFINED ]

\* line 46: `!currentMessage.trim() || isLoading`
submitRejected_IgnoresLoading(text, pending) == trim(text) = <<>>

submitRejected_IgnoresBlank(text, pending) == text = <<>> \/ pending

submitRejected(text, pending) == trim(text) = <<>> \/ pending

\* lines 48-53 (id and timestamp, read from the clock, are left out)
userMessage_Trimmed(text) ==
    [ type |-> "user", content |-> trim(text), suggestedActions |-> UNDEFINED ]

userMessage(text) ==
    [ type |-> "user", content |-> text, suggestedActions |-> UNDEFINED ]

\* lines 65-68: the body of the POST
chatRequest(text) == [ message |-> text, context |-> <<>> ]

\* lines 73-79
botMessage_NoActions(data) ==
    [ type |-> "bot", content |-> data.response, suggestedActions |-> UNDEFINED ]

botMessage(data) ==
    [ type |-> "bot", content |-> data.response,
      suggestedActions |-> data.suggested_actions ]

\* lines 86-91
errorMessage ==
    [ type |-> "bot", content |-> apology, suggestedActions |-> UNDEFINED ]

\* The body recorded for a handler that consumed none.
noBody == [ response |-> <<>>, suggested_actions |-> <<>> ]

\* What the observer records of a chat handler that ran: its name; for a
\* submit, whether it was called while pending and whether on a blank text;
\* for the resumption after an answer with a JSON body, that body.
ChatEventOf(op, data) ==
    [ op |-> op,
      loading |-> IF op = "submit" THEN isLoading ELSE FALSE,
      blank |-> IF op = "submit" THEN trim(currentMessage) = <<>> ELSE FALSE,
      data |-> data ]

\* A sequence without its i-th element.
RemoveAt(s, i) == SubSeq(s, 1, i - 1) \o SubSeq(s, i + 1, Len(s))

\* onChange of the input box (disabled while isLoading).
setCurrentMessage(t) ==
    /\ ~isLoading
    /\ currentMessage' = t
    /\ chatEvent' = ChatEventOf("type", noBody)
    /\ toast' = noToast
    /\ UNCHANGED <<messages, isLoading, chatRequests, chatIssued, nonChatVars>>

\* onClick of a "Quick Examples" button (never disabled).
quickExample(t) ==
    /\ currentMessage' = t
    /\ chatEvent' = ChatEventOf("quick", noBody)
    /\ toast' = noToast
    /\ UNCHANGED <<messages, isLoading, chatRequests, chatIssued, nonChatVars>>

\* handleSendMessage up to its first await (lines 45-69).
handleSendMessage ==
    /\ chatEvent' = ChatEventOf("submit", noBody)
    /\ toast' = noToast
    /\ IF submitRejected(currentMessage, isLoading)
       THEN UNCHANGED <<messages, currentMessage, isLoading, chatRequests,
                        chatIssued, nonChatVars>>
       ELSE /\ chatIssued < MaxSubmits
            /\ messages' = Append(messages, userMessage(currentMessage))
            /\ currentMessage' = <<>>
            /\ isLoading' = TRUE
            /\ chatRequests' = Append(chatRequests, chatRequest(currentMessage))
            /\ chatIssued' = chatIssued + 1
            /\ UNCHANGED nonChatVars

\* The rest of handleSendMessage once the awaited request has settled
\* (lines 71-96), for a 2xx answer with body `data`.
chatResolved_KeepsPending(data) ==
    /\ \E i \in 1..Len(chatRequests) : chatRequests' = RemoveAt(chatRequests, i)
    /\ messages' = Append(messages, botMessage(data))
    /\ chatEvent' = ChatEventOf("ok", data)
    /\ toast' = noToast
    /\ UNCHANGED <<isLoading, currentMessage, chatIssued, nonChatVars>>

chatResolved(data) ==
    /\ \E i \in 1..Len(chatRequests) : chatRequests' = RemoveAt(chatRequests, i)
    /\ messages' = Append(messages, botMessage(data))
    /\ isLoading' = FALSE
    /\ chatEvent' = ChatEventOf("ok", data)
    /\ toast' = noToast
    /\ UNCHANGED <<currentMessage, chatIssued, nonChatVars>>

\* The same for a non-2xx answer with a JSON body: fetch resolves, json()
\* resolves, and lines 73-81 run on the error body.
chatHttpError_StaysPending ==
    /\ \E i \in 1..Len(chatRequests) : chatRequests' = RemoveAt(chatRequests, i)
    /\ messages' = Append(messages, botMessage(errorBody))
    /\ chatEvent' = ChatEventOf("http_error", errorBody)
    /\ toast' = noToast
    /\ UNCHANGED <<isLoading, currentMessage, chatIssued, nonChatVars>>

chatHttpError ==
    /\ \E i \in 1..Len(chatRequests) : chatRequests' = RemoveAt(chatRequests, i)
    /\ messages' = Append(messages, botMessage(errorBody))
    /\ isLoading' = FALSE
    /\ chatEvent' = ChatEventOf("http_error", errorBody)
    /\ toast' = noToast
    /\ UNCHANGED <<currentMessage, chatIssued, nonChatVars>>

\* The catch block (lines 82-93) and finally (lines 94-96).
chatThrew_ReplacesList ==
    /\ \E i \in 1..Len(chatRequests) : chatRequests' = RemoveAt(chatRequests, i)
    /\ messages' = <<errorMessage>>
    /\ toast' = "Failed to send message"
    /\ isLoading' = FALSE
    /\ chatEvent' = ChatEventOf("throw", noBody)
    /\ UNCHANGED <<currentMessage, chatIssued, nonChatVars>>

chatThrew ==
    /\ \E i \in 1..Len(chatRequests) : chatRequests' = RemoveAt(chatRequests, i)
    /\ messages' = Append(messages, errorMessage)
    /\ toast' = "Failed to send message"
    /\ isLoading' = FALSE
    /\ chatEvent' = ChatEventOf("throw", noBody)
    /\ UNCHANGED <<currentMessage, chatIssued, nonChatVars>>

\* lines 107-111
actionMessages ==
    [ analyze_disruption |->
          <<"Please analyze the current disruption situation and provide recommendations.">>,
      view_roster |-> <<"Show me the current roster status and any conflicts.">>,
      check_compliance |->
          <<"Check DGCA compliance for the current roster assignments.">> ]

\* The action ids for which a button is rendered (part_002 lines 188-201).
RenderedActions ==
    UNION { { m.suggestedActions[i] : i \in 1..Len(m.suggestedActions) } :
            m \in { messages[j] : j \in { k \in 1..Len(messages) :
                                          messages[k].suggestedActions # UNDEFINED } } }

\* lines 106-115
handleSuggestedAction_StagesId(action) ==
    /\ currentMessage' = <<action>>
    /\ chatEvent' = ChatEventOf("suggested", noBody)
    /\ toast' = noToast
    /\ UNCHANGED <<messages, isLoading, chatRequests, chatIssued, nonChatVars>>

handleSuggestedAction(action) ==
    /\ currentMessage' =
           IF action \in DOMAIN actionMessages THEN actionMessages[action]
           ELSE <<action>>
    /\ chatEvent' = ChatEventOf("suggested", noBody)
    /\ toast' = noToast
    /\ UNCHANGED <<messages, isLoading, chatRequests, chatIssued, nonChatVars>>

\* lines 117-127
clearChat_CancelsPending ==
    /\ messages' = <<seedMessage>>
    /\ isLoading' = FALSE
    /\ chatRequests' = <<>>
    /\ chatEvent' = ChatEventOf("reset", noBody)
    /\ toast' = noToast
    /\ UNCHANGED <<currentMessage, chatIssued, nonChatVars>>

clearChat ==
    /\ messages' = <<seedMessage>>
    /\ chatEvent' = ChatEventOf("reset", noBody)
    /\ toast' = noToast
    /\ UNCHANGED <<currentMessage, isLoading, chatRequests, chatIssued, nonChatVars>>

ChatInit ==
    /\ messages = <<seedMessage>>
    /\ currentMessage = <<>>
    /\ isLoading = FALSE
    /\ chatRequests = <<>>
    /\ chatIssued = 0
    /\ chatEvent = [ op |-> "mount", loading |-> FALSE, blank |-> FALSE, data |-> noBody ]

ChatNext ==
    \/ \E t \in TypedTexts : setCurrentMessage(t)
    \/ \E t \in QuickExamples : quickExample(t)
    \/ handleSendMessage
    \/ \E data \in ChatReplies : chatResolved(data)
    \/ chatHttpError
    \/ chatThrew
    \/ \E a \in RenderedActions : handleSuggestedAction(a)
    \/ clearChat

----------------------------------------------------------------------------
(* CrewList -> CrewDetailsModal: the per-crew detail drill-down *)

\* JavaScript `null` of a state cell that holds a crew id.
NULL == "null"

\* The crew members of the backend.  A CrewMember is represented by its
\* Crew_ID: the other fields of the profile are a function of it.
Crews == {"C1", "C2"}

\* crew_members of a 2xx answer of GET /crew?limit=100&offset=0: the page
\* holds every crew member, or C1 is no longer on it.
CrewPages == { <<"C1", "C2">>, <<"C2">> }

\* schedules of a 2xx answer of GET /crew/{id}/schedule.
scheduleOf ==
    [ C1 |-> << [ roster_id |-> 7, start_date |-> "2025-01-01",
                  end_date |-> "2025-01-07", violation_count |-> 1 ] >>,
      C2 |-> << [ roster_id |-> 7, start_date |-> "2025-01-01",
                  end_date |-> "2025-01-07", violation_count |-> 0 ] >> ]

\* preferences of a 2xx answer of GET /preferences/{id}.
preferencesOf ==
    [ C1 |-> << [ type |-> "Base", detail |-> "DEL", priority |-> "High" ] >>,
      C2 |-> << [ type |-> "Day off", detail |-> "Sunday", priority |-> "Low" ] >> ]

\* rosters of a 2xx answer of GET /rosters/history?limit=1&offset=0: one
\* roster, or none generated yet.
HistoryBodies == { << [ id |-> 7 ] >>, <<>> }

\* roster_data of a 2xx answer of GET /rosters/7.
rosterFlights ==
    << [ Flight_Number |-> "6E101", Date |-> "2025-01-01",
         Crew_Members |-> << [ Crew_ID |-> "C1", Crew_Rank |-> "Captain" ],
                             [ Crew_ID |-> "C2", Crew_Rank |-> "First Officer" ] >> ],
       [ Flight_Number |-> "6E202", Date |-> "2025-01-02",
         Crew_Members |-> << [ Crew_ID |-> "C1", Crew_Rank |-> "Captain" ] >> ] >>

\* The bodies of a 2xx answer of GET /rosters/7: with roster_data, or
\* without it (has_roster_data tells whether the field is there).
RosterBodies ==
    { [ roster_id |-> 7, has_roster_data |-> TRUE, roster_data |-> rosterFlights ],
      [ roster_id |-> 7, has_roster_data |-> FALSE, roster_data |-> <<>> ] }

\* The JSON body of a non-2xx answer, read as a roster.
rosterErrorBody == [ roster_id |-> 0, has_roster_data |-> FALSE, roster_data |-> <<>> ]

\* The sections of the detail view.
Sections == {"profile", "schedule", "preferences", "flights"}

\* line 310: crewData.crew_members.find(c => c.Crew_ID === crewId)
findCrew(page, crewId) ==
    IF \E i \in 1..Len(page) : page[i] = crewId THEN crewId ELSE "undefined"

\* lines 350-352: roster_data?.filter(...) || []
crewFlightsOf_AllFlights(rosterData, crewId) ==
    IF ~rosterData.has_roster_data THEN <<>> ELSE rosterData.roster_data

crewFlightsOf(rosterData, crewId) ==
    IF ~rosterData.has_roster_data THEN <<>>
    ELSE LET assigned(flight) ==
                 \E i \in 1..Len(flight.Crew_Members) :
                     flight.Crew_Members[i].Crew_ID = crewId
         IN  SelectSeq(rosterData.roster_data, assigned)

violationTypes == <<"Rest Period", "Duty Time", "Flight Time", "Minimum Equipment">>
violationSeverities == <<"High", "Medium", "Low">>

\* lines 369-370: crewFlights[Math.floor(Math.random() * n)]?.Flight_Number
\* and ?.Date, drawn independently.
randomPicks(crewFlights) ==
    IF crewFlights = <<>> THEN { <<"undefined", "undefined">> }
    ELSE { <<crewFlights[i].Flight_Number, crewFlights[j].Date>> :
           i \in 1..Len(crewFlights), j \in 1..Len(crewFlights) }

\* lines 357-373: the lists mockViolations can end as, for the schedule the
\* closure of this call holds (the descriptions, one per type, are left out).
mockViolations(closureSchedule, crewFlights) ==
    LET n == IF Len(closureSchedule) > 0 /\ closureSchedule[1].violation_count > 0
             THEN closureSchedule[1].violation_count ELSE 0
    IN  { [ i \in 1..n |->
              [ type |-> violationTypes[((i - 1) % 4) + 1],
                severity |-> violationSeverities[((i - 1) % 3) + 1],
                flight_number |-> pick[i][1],
                date |-> pick[i][2] ] ] :
          pick \in [ 1..n -> randomPicks(crewFlights) ] }

\* What the observer records of a handler of the drill-down that ran: for a
\* fetch that failed, which fetch, how, and whether of the newest call.
CrewEventOf(op, newest, outcome) ==
    IF outcome \in {"http_error", "throw"}
    THEN [ op |-> op, newest |-> newest, outcome |-> outcome ]
    ELSE [ op |-> "step", newest |-> FALSE, outcome |-> "none" ]

\* lines 433-438: the Dialog is rendered (and covers the crew list) unless
\* the component returns null.
dialogShown == isModalOpen /\ (crewDetails # NULL \/ loading)

\* The call L of fetchCrewDetails moves on to its next await.
loadAt(L, pc) == [ L EXCEPT !.pc = pc ]

\* The call L wrote the sections `secs`.
wrote(L, secs) ==
    latestWrote' = IF L.id = loadsStarted THEN latestWrote \cup secs ELSE latestWrote

\* part_001 lines 98-101 followed by the effect of the modal (lines 295-299)
\* and fetchCrewDetails up to its first await (lines 301-308).  The effect
\* runs when crewId or isOpen changed; the closure of the call holds the
\* crewId and the schedule of the render the effect belongs to.  The field
\* `overlapped` of a call is an observer: another call was running when this
\* one started, or was started while this one ran.
handleCrewClick(crewId) ==
    /\ ~dialogShown
    /\ selectedCrewId' = crewId
    /\ isModalOpen' = TRUE
    /\ crewEvent' = CrewEventOf("select", TRUE, "none")
    /\ IF crewId # selectedCrewId \/ ~isModalOpen
       THEN /\ loadsStarted < MaxLoads
            /\ loading' = TRUE
            /\ loadsStarted' = loadsStarted + 1
            /\ loads' = { [ L EXCEPT !.overlapped = TRUE ] : L \in loads } \cup
                   { [ id |-> loadsStarted + 1, crewId |-> crewId,
                       schedule |-> schedule, pc |-> "crew", rosterId |-> 0,
                       overlapped |-> loads # {} ] }
            /\ latestWrote' = {}
       ELSE UNCHANGED <<loading, loadsStarted, loads, latestWrote>>
    /\ toast' = noToast
    /\ UNCHANGED <<crewDetails, schedule, preferences, flightAssignments, violations,
                   nonCrewVars>>

\* part_001 line 296: onClose
closeModal ==
    /\ dialogShown
    /\ isModalOpen' = FALSE
    /\ crewEvent' = CrewEventOf("close", TRUE, "none")
    /\ toast' = noToast
    /\ UNCHANGED <<selectedCrewId, crewDetails, schedule, preferences,
                   flightAssignments, violations, loading, loads,
                   loadsStarted, latestWrote, nonCrewVars>>

\* lines 309-318: the crew page arrived; on to the schedule fetch.
crewPageResolved(L, page) ==
    /\ L \in loads /\ L.pc = "crew"
    /\ IF findCrew(page, L.crewId) # "undefined"
       THEN /\ crewDetails' = findCrew(page, L.crewId)
            /\ wrote(L, {"profile"})
       ELSE UNCHANGED <<crewDetails, latestWrote>>
    /\ loads' = (loads \ {L}) \cup {loadAt(L, "schedule")}
    /\ crewEvent' = CrewEventOf("crew", L.id = loadsStarted, "ok")
    /\ toast' = noToast
    /\ UNCHANGED <<selectedCrewId, isModalOpen, schedule, preferences,
                   flightAssignments, violations, loading,
                   loadsStarted, nonCrewVars>>

\* lines 308-310 and 381-386: the crew fetch was rejected, or answered
\* non-2xx with a JSON body, whose crew_members is undefined so that .find
\* throws: the outer catch and finally.
crewPageFailed(L, outcome) ==
    /\ L \in loads /\ L.pc = "crew"
    /\ outcome \in {"http_error", "throw"}
    /\ toast' = "Failed to fetch crew details"
    /\ loading' = FALSE
    /\ loads' = loads \ {L}
    /\ crewEvent' = CrewEventOf("crew", L.id = loadsStarted, outcome)
    /\ UNCHANGED <<selectedCrewId, isModalOpen, crewDetails, schedule, preferences,
                   flightAssignments, violations, loadsStarted,
                   latestWrote, nonCrewVars>>

\* lines 319-328: the schedule fetch settled; on to the preferences fetch.
\* `schedules` is the list of a 2xx body; a non-2xx JSON body has none
\* (`|| []`); a rejected fetch takes the catch of lines 321-324.
scheduleSettled(L, outcome, schedules) ==
    /\ L \in loads /\ L.pc = "schedule"
    /\ schedule' = IF outcome = "ok" THEN schedules ELSE <<>>
    /\ wrote(L, {"schedule"})
    /\ loads' = (loads \ {L}) \cup {loadAt(L, "preferences")}
    /\ crewEvent' = CrewEventOf("schedule", L.id = loadsStarted, outcome)
    /\ toast' = noToast
    /\ UNCHANGED <<selectedCrewId, isModalOpen, crewDetails, preferences,
                   flightAssignments, violations, loading,
                   loadsStarted, nonCrewVars>>

\* lines 329-338: the preferences fetch settled; on to the history fetch.
preferencesSettled(L, outcome, prefs) ==
    /\ L \in loads /\ L.pc = "preferences"
    /\ preferences' = IF outcome = "ok" THEN prefs ELSE <<>>
    /\ wrote(L, {"preferences"})
    /\ loads' = (loads \ {L}) \cup {loadAt(L, "history")}
    /\ crewEvent' = CrewEventOf("preferences", L.id = loadsStarted, outcome)
    /\ toast' = noToast
    /\ UNCHANGED <<selectedCrewId, isModalOpen, crewDetails, schedule,
                   flightAssignments, violations, loading,
                   loadsStarted, nonCrewVars>>

\* lines 339-344: the history arrived with a roster; on to the roster fetch.
historyResolved(L, rosters) ==
    /\ L \in loads /\ L.pc = "history"
    /\ Len(rosters) > 0
    /\ loads' = (loads \ {L}) \cup {[ loadAt(L, "roster") EXCEPT !.rosterId = rosters[1].id ]}
    /\ crewEvent' = CrewEventOf("history", L.id = loadsStarted, "ok")
    /\ toast' = noToast
    /\ UNCHANGED <<selectedCrewId, isModalOpen, crewDetails, schedule, preferences,
                   flightAssignments, violations, loading,
                   loadsStarted, latestWrote, nonCrewVars>>

\* lines 339-341, 375 and 384-386: the history has no `rosters` (a non-2xx
\* JSON body) or an empty one (a 2xx body): the `if` is skipped and the call
\* ends in finally.
historySkipped(L, outcome) ==
    /\ L \in loads /\ L.pc = "history"
    /\ outcome \in {"ok", "http_error"}
    /\ loading' = FALSE
    /\ loads' = loads \ {L}
    /\ crewEvent' = CrewEventOf("history", L.id = loadsStarted, outcome)
    /\ toast' = noToast
    /\ UNCHANGED <<selectedCrewId, isModalOpen, crewDetails, schedule, preferences,
                   flightAssignments, violations, loadsStarted,
                   latestWrote, nonCrewVars>>

\* lines 376-380 and 384-386: the history fetch or the roster fetch was
\* rejected: the inner catch, then finally.
derivationThrew(L) ==
    /\ L \in loads /\ L.pc \in {"history", "roster"}
    /\ flightAssignments' = <<>>
    /\ violations' = <<>>
    /\ wrote(L, {"flights"})
    /\ loading' = FALSE
    /\ loads' = loads \ {L}
    /\ crewEvent' = CrewEventOf(L.pc, L.id = loadsStarted, "throw")
    /\ toast' = noToast
    /\ UNCHANGED <<selectedCrewId, isModalOpen, crewDetails, schedule, preferences,
                   loadsStarted, nonCrewVars>>

\* lines 345-375 and 384-386: the roster arrived (`rosterData` is the body
\* of a 2xx answer, or the JSON body of a non-2xx one).  set
\* at line 347 and read nowhere, is not part of the state.
rosterSettled(L, outcome, rosterData) ==
    /\ L \in loads /\ L.pc = "roster"
    /\ flightAssignments' = crewFlightsOf(rosterData, L.crewId)
    /\ violations' \in mockViolations(L.schedule, crewFlightsOf(rosterData, L.crewId))
    /\ wrote(L, {"flights"})
    /\ loading' = FALSE
    /\ loads' = loads \ {L}
    /\ crewEvent' = CrewEventOf("roster", L.id = loadsStarted, outcome)
    /\ toast' = noToast
    /\ UNCHANGED <<selectedCrewId, isModalOpen, crewDetails, schedule, preferences,
                   loadsStarted, nonCrewVars>>

CrewInit ==
    /\ selectedCrewId = NULL
    /\ isModalOpen = FALSE
    /\ crewDetails = NULL
    /\ schedule = <<>>
    /\ preferences = <<>>
    /\ flightAssignments = <<>>
    /\ violations = <<>>
    /\ loading = FALSE
    /\ loads = {}
    /\ loadsStarted = 0
    /\ latestWrote = {}
    /\ crewEvent = CrewEventOf("mount", TRUE, "none")

CrewNext ==
    \/ \E c \in Crews : handleCrewClick(c)
    \/ closeModal
    \/ \E L \in loads, page \in CrewPages : crewPageResolved(L, page)
    \/ \E L \in loads, o \in {"http_error", "throw"} : crewPageFailed(L, o)
    \/ \E L \in loads : scheduleSettled(L, "ok", scheduleOf[L.crewId])
    \/ \E L \in loads, o \in {"http_error", "throw"} : scheduleSettled(L, o, <<>>)
    \/ \E L \in loads : preferencesSettled(L, "ok", preferencesOf[L.crewId])
    \/ \E L \in loads, o \in {"http_error", "throw"} : preferencesSettled(L, o, <<>>)
    \/ \E L \in loads, rosters \in HistoryBodies : historyResolved(L, rosters)
    \/ \E L \in loads, o \in {"ok", "http_error"} : historySkipped(L, o)
    \/ \E L \in loads : derivationThrew(L)
    \/ \E L \in loads, body \in RosterBodies : rosterSettled(L, "ok", body)
    \/ \E L \in loads : rosterSettled(L, "http_error", rosterErrorBody)

----------------------------------------------------------------------------
(* FlightsList *)

\* line 32
flightsPerPage == 20

\* The values the selects and the date input offer (lines 34-36 and the
\* SelectItem "all" of each select); one option of each stands for the list.
OriginValues == {"all", "DEL"}
DestinationValues == {"all", "BOM"}
AircraftValues == {"all", "ATR"}
DateValues == {"", "2025-01-01"}

\* A text that is searched is a sequence of characters.
SearchTerms == { <<>>, <<"D", "e">>, <<"2">> }

\* Rows of the flights table (the fields of lines 8-18 that the code reads).
flightDelBom ==
    [Flight_Number |-> <<"6", "E", "1">>, Origin |-> <<"D", "E", "L">>,
     Destination |-> <<"B", "O", "M">>]
flightBomBlr ==
    [Flight_Number |-> <<"6", "E", "2">>, Origin |-> <<"B", "O", "M">>,
     Destination |-> <<"B", "L", "R">>]

\* Bodies of a 2xx answer of GET /api/v1/flights (lines 59-60).
FlightBodies ==
    { [flights |-> <<flightDelBom, flightBomBlr>>, total |-> 41],
      [flights |-> <<flightBomBlr>>, total |-> 21],
      [flights |-> <<>>, total |-> 0] }

\* The JSON body of a non-2xx answer: it has neither `flights` nor `total`.
flightsErrorBody == [detail |-> "Internal Server Error"]

\* Number.prototype.toString of a non-negative integer (lines 50-51).
digitChar == <<"0", "1", "2", "3", "4", "5", "6", "7", "8", "9">>
RECURSIVE toString(_)
toString(n) ==
    IF n < 10 THEN digitChar[n + 1]
    ELSE toString(n \div 10) \o digitChar[(n % 10) + 1]

\* lines 49-57: the query parameters, as the set of their (key, value) pairs.
flightParams(page, origin, destination, aircraft, date) ==
    {<<"limit", toString(flightsPerPage)>>,
     <<"offset", toString((page - 1) * flightsPerPage)>>}
    \cup (IF origin # "" /\ origin # "all" THEN {<<"origin", origin>>} ELSE {})
    \cup (IF destination # "" /\ destination # "all"
          THEN {<<"destination", destination>>} ELSE {})
    \cup (IF aircraft # "" /\ aircraft # "all"
          THEN {<<"aircraft_type", aircraft>>} ELSE {})
    \cup (IF date # "" THEN {<<"date", date>>} ELSE {})

\* String.prototype.toLowerCase on the characters the model uses.
lowerChar(c) ==
    CASE c = "A" -> "a" [] c = "B" -> "b" [] c = "C" -> "c" [] c = "D" -> "d"
      [] c = "E" -> "e" [] c = "L" -> "l"
      [] c = "M" -> "m" [] c = "O" -> "o" [] c = "R" -> "r" [] OTHER -> c
toLowerCase(s) == [i \in 1..Len(s) |-> lowerChar(s[i])]

\* String.prototype.includes
includes(s, t) ==
    \E i \in 0..(Len(s) - Len(t)) : SubSeq(s, i + 1, i + Len(t)) = t

\* lines 70-82: the client-side search over the fetched page.
flightMatches(flight, term) ==
    \/ includes(toLowerCase(flight.Flight_Number), toLowerCase(term))
    \/ includes(toLowerCase(flight.Origin), toLowerCase(term))
    \/ includes(toLowerCase(flight.Destination), toLowerCase(term))
filterFlights(list, term) ==
    IF term # <<>>
    THEN SelectSeq(list, LAMBDA flight : flightMatches(flight, term))
    ELSE list

\* line 97: Math.ceil(totalFlights / flightsPerPage)
totalPages == (totalFlights + flightsPerPage - 1) \div flightsPerPage

\* lines 61-62: `data.flights || []` and `data.total || 0`
flightsOrEmpty(data) == IF "flights" \in DOMAIN data THEN data.flights ELSE <<>>
totalOrZero(data) == IF "total" \in DOMAIN data THEN data.total ELSE 0

\* lines 46-59, up to the await: fetchFlights, called by the effect of lines
\* 38-40 in the render that holds the new parameters.
fetchFlights(page, origin, destination, aircraft, date) ==
    /\ flightsIssued < MaxFetches
    /\ flightsLoading' = TRUE
    /\ flightRequests' = flightRequests \cup
           {[id |-> flightsIssued + 1,
             params |-> flightParams(page, origin, destination, aircraft, date)]}
    /\ flightsIssued' = flightsIssued + 1
    /\ newestResponse' = <<>>

\* lines 38-40, first run: the effect runs after the first render.
flightsMounted ==
    /\ flightsIssued = 0
    /\ fetchFlights(currentPage, originFilter, destinationFilter,
                    aircraftFilter, dateFilter)
    /\ toast' = noToast
    /\ UNCHANGED <<flights, filteredFlights, searchTerm, originFilter,
                   destinationFilter, aircraftFilter, dateFilter, currentPage,
                   totalFlights, spinnerShown, nonFlightsVars>>

\* lines 99-105: the render that setLoading(true) of line 48 scheduled.  The
\* call is made from a passive effect, so its render is scheduled as a task
\* of its own: until it commits, the controls of the previous render stay
\* in the document.
spinnerRendered ==
    /\ flightsLoading /\ ~spinnerShown
    /\ spinnerShown' = TRUE
    /\ toast' = noToast
    /\ UNCHANGED <<flights, filteredFlights, flightsLoading, searchTerm,
                   originFilter, destinationFilter, aircraftFilter, dateFilter,
                   currentPage, totalFlights, flightRequests, flightsIssued,
                   newestResponse, nonFlightsVars>>

\* A handler of a control of lines 107-332 stored these values; the effects
\* of lines 38-44 ran in the render that followed.
controlsSet(page, origin, destination, aircraft, date, term) ==
    /\ flightsIssued > 0
    /\ ~spinnerShown
    /\ currentPage' = page
    /\ originFilter' = origin
    /\ destinationFilter' = destination
    /\ aircraftFilter' = aircraft
    /\ dateFilter' = date
    /\ searchTerm' = term
    /\ filteredFlights' = filterFlights(flights, term)
    /\ IF <<page, origin, destination, aircraft, date>> #
            <<currentPage, originFilter, destinationFilter, aircraftFilter,
              dateFilter>>
       THEN fetchFlights(page, origin, destination, aircraft, date)
       ELSE UNCHANGED <<flightsLoading, flightRequests, flightsIssued,
                        newestResponse>>
    /\ toast' = noToast
    /\ UNCHANGED <<flights, totalFlights, spinnerShown, nonFlightsVars>>

\* the search box
setSearchTerm(term) ==
    /\ term # searchTerm
    /\ controlsSet(currentPage, originFilter, destinationFilter,
                   aircraftFilter, dateFilter, term)

\* the three selects and the date input
setOriginFilter(v) ==
    /\ v # originFilter
    /\ controlsSet(currentPage, v, destinationFilter, aircraftFilter,
                   dateFilter, searchTerm)
setDestinationFilter(v) ==
    /\ v # destinationFilter
    /\ controlsSet(currentPage, originFilter, v, aircraftFilter, dateFilter,
                   searchTerm)
setAircraftFilter(v) ==
    /\ v # aircraftFilter
    /\ controlsSet(currentPage, originFilter, destinationFilter, v,
                   dateFilter, searchTerm)
setDateFilter(v) ==
    /\ v # dateFilter
    /\ controlsSet(currentPage, originFilter, destinationFilter,
                   aircraftFilter, v, searchTerm)

\* lines 164-176: Clear Filters
clearFilters ==
    controlsSet(1, "all", "all", "all", "", <<>>)

\* lines 305-318: Previous
previousPage ==
    /\ totalPages > 1
    /\ currentPage # 1
    /\ controlsSet(IF currentPage - 1 > 1 THEN currentPage - 1 ELSE 1,
                   originFilter, destinationFilter, aircraftFilter, dateFilter,
                   searchTerm)

\* lines 305-310 and 322-329: Next
nextPage ==
    /\ totalPages > 1
    /\ currentPage # totalPages
    /\ controlsSet(IF currentPage + 1 < totalPages THEN currentPage + 1
                   ELSE totalPages,
                   originFilter, destinationFilter, aircraftFilter, dateFilter,
                   searchTerm)

\* lines 60-62 and 65-67: the fetch resolved and its body parsed (`data` is
\* the body of a 2xx answer, or the JSON body of a non-2xx one).  The render
\* that setLoading(false) schedules is part of the step: no handler can run
\* before it.
flightsSettled(r, data) ==
    /\ flights' = flightsOrEmpty(data)
    /\ totalFlights' = totalOrZero(data)
    /\ filteredFlights' = filterFlights(flightsOrEmpty(data), searchTerm)
    /\ flightsLoading' = FALSE
    /\ spinnerShown' = FALSE
    /\ flightRequests' = flightRequests \ {r}
    /\ newestResponse' =
           IF r.id = flightsIssued
           THEN <<[flights |-> flightsOrEmpty(data), total |-> totalOrZero(data)]>>
           ELSE newestResponse
    /\ toast' = noToast
    /\ UNCHANGED <<searchTerm, originFilter, destinationFilter, aircraftFilter,
                   dateFilter, currentPage, flightsIssued, nonFlightsVars>>

\* lines 63-67: the fetch was rejected, or the body is not JSON.
flightsThrew(r) ==
    /\ flightsLoading' = FALSE
    /\ spinnerShown' = FALSE
    /\ flightRequests' = flightRequests \ {r}
    /\ toast' = noToast
    /\ UNCHANGED <<flights, filteredFlights, totalFlights, searchTerm,
                   originFilter, destinationFilter, aircraftFilter, dateFilter,
                   currentPage, flightsIssued, newestResponse, nonFlightsVars>>

\* lines 22-31
FlightsInit ==
    /\ flights = <<>>
    /\ filteredFlights = <<>>
    /\ flightsLoading = TRUE
    /\ searchTerm = <<>>
    /\ originFilter = "all"
    /\ destinationFilter = "all"
    /\ aircraftFilter = "all"
    /\ dateFilter = ""
    /\ currentPage = 1
    /\ totalFlights = 0
    /\ spinnerShown = TRUE
    /\ flightRequests = {}
    /\ flightsIssued = 0
    /\ newestResponse = <<>>

FlightsNext ==
    \/ flightsMounted
    \/ spinnerRendered
    \/ \E term \in SearchTerms : setSearchTerm(term)
    \/ \E v \in OriginValues : setOriginFilter(v)
    \/ \E v \in DestinationValues : setDestinationFilter(v)
    \/ \E v \in AircraftValues : setAircraftFilter(v)
    \/ \E v \in DateValues : setDateFilter(v)
    \/ clearFilters
    \/ previousPage
    \/ nextPage
    \/ \E r \in flightRequests, data \in FlightBodies : flightsSettled(r, data)
    \/ \E r \in flightRequests : flightsSettled(r, flightsErrorBody)
    \/ \E r \in flightRequests : flightsThrew(r)

----------------------------------------------------------------------------
(* CrewList: the list, its search box and its three selects *)

\* The value "all" of a select (lines 36-38, 180, 192, 204).
ALL == <<"a", "l", "l">>

\* Texts of the crew list, as sequences of characters.
DEL == <<"D", "E", "L">>
BOM == <<"B", "O", "M">>
Captain == <<"C", "a", "p", "t", "a", "i", "n">>
FirstOfficer == <<"F", "O">>
A320neo == <<"A", "3", "2", "0", "n", "e", "o">>
A321neo == <<"A", "3", "2", "1", "n", "e", "o">>

\* Members the backend can send (the fields of lines 20-29 that the filter
\* reads).  The last one lacks Name.
crewAn == [Crew_ID |-> <<"C", "1">>, Name |-> <<"A", "n">>, Base |-> DEL,
           Rank |-> Captain, Aircraft_Type_License |-> A320neo]
crewBo == [Crew_ID |-> <<"C", "2">>, Name |-> <<"B", "o">>, Base |-> DEL,
           Rank |-> FirstOfficer, Aircraft_Type_License |-> A321neo]
crewNoName == [Crew_ID |-> <<"C", "3">>, Base |-> BOM, Rank |-> Captain,
               Aircraft_Type_License |-> A320neo]
CrewRecords == {crewAn, crewBo, crewNoName}

\* The lists of at most MaxCrewLen members.
CrewLists == UNION { [1..n -> CrewRecords] : n \in 0..MaxCrewLen }

\* Bodies of a 2xx answer of GET /api/v1/crew (lines 53-54).
CrewListBodies == { [crew_members |-> list] : list \in CrewLists }

\* What the search box can hold.
CrewSearchTerms == { <<>>, <<"A">>, <<"2">> }

\* The SelectItems of the aircraft select (lines 204-206).
AircraftOptions == {ALL, A320neo, A321neo}

\* The result of a step of the filter: a list, or the TypeError that reading
\* a property of undefined throws.
returned(list) == [threw |-> FALSE, list |-> list]
thrown == [threw |-> TRUE, list |-> <<>>]

\* lines 67-72: the search over Name and Crew_ID.  Name is read first; the
\* Crew_ID is read only when the Name does not match.
searchReads(crew, term) ==
    IF "Name" \notin DOMAIN crew THEN "throw"
    ELSE IF includes(toLowerCase(crew.Name), toLowerCase(term)) THEN "match"
    ELSE IF "Crew_ID" \notin DOMAIN crew THEN "throw"
    ELSE IF includes(toLowerCase(crew.Crew_ID), toLowerCase(term)) THEN "match"
    ELSE "no match"
searchCrew(list, term) ==
    IF term = <<>> THEN returned(list)
    ELSE IF \E i \in 1..Len(list) : searchReads(list[i], term) = "throw"
         THEN thrown
         ELSE returned(SelectSeq(list, LAMBDA crew : searchReads(crew, term) = "match"))

\* lines 74-80: `crew.Base === selectedBase`, `crew.Rank === selectedRank`;
\* a missing field is undefined and equals no text.
fieldIs(crew, field, value) == field \in DOMAIN crew /\ crew[field] = value
selectBy_NoAllCase(list, field, value) ==
    SelectSeq(list, LAMBDA crew : fieldIs(crew, field, value))
selectBy(list, field, value) ==
    IF value # ALL
    THEN SelectSeq(list, LAMBDA crew : fieldIs(crew, field, value))
    ELSE list

\* lines 82-86: `crew.Aircraft_Type_License.includes(selectedAircraft)`
selectAircraft(list, aircraft) ==
    IF aircraft = ALL THEN returned(list)
    ELSE IF \E i \in 1..Len(list) : "Aircraft_Type_License" \notin DOMAIN list[i]
         THEN thrown
         ELSE returned(SelectSeq(list,
                  LAMBDA crew : includes(crew.Aircraft_Type_License, aircraft)))

\* lines 64-89, up to setFilteredCrew: the four steps in their order.
filterCrewMembers_IgnoresRank(list, term, base, rank, aircraft) ==
    LET searched == searchCrew(list, term)
    IN  IF searched.threw THEN thrown
        ELSE selectAircraft(selectBy(searched.list, "Base", base), aircraft)
filterCrewMembers_Reversed(list, term, base, rank, aircraft) ==
    LET searched == searchCrew(list, term)
        kept == selectAircraft(
                    selectBy(selectBy(searched.list, "Base", base), "Rank", rank),
                    aircraft)
    IN  IF searched.threw \/ kept.threw THEN thrown
        ELSE returned([i \in 1..Len(kept.list) |->
                          kept.list[Len(kept.list) + 1 - i]])
filterCrewMembers(list, term, base, rank, aircraft) ==
    LET searched == searchCrew(list, term)
    IN  IF searched.threw THEN thrown
        ELSE selectAircraft(
                 selectBy(selectBy(searched.list, "Base", base), "Rank", rank),
                 aircraft)

\* lines 128-131: the distinct truthy values of a field, the options of the
\* base and rank selects (lines 180-182 and 192-194).
getUniqueValues(field) ==
    {crewMembers[i][field] :
        i \in {j \in 1..Len(crewMembers) : field \in DOMAIN crewMembers[j]}}

\* line 55: `data.crew_members || []`
crewMembersOrEmpty(data) ==
    IF "crew_members" \in DOMAIN data THEN data.crew_members ELSE <<>>

\* The JSON body of a non-2xx answer: it has no `crew_members`.
crewListErrorBody == [detail |-> "Internal Server Error"]

\* lines 46-48 and 88: the filter effect of a render with these values.  An
\* error thrown by an effect unmounts the tree (there is no error boundary):
\* the list is gone and no handler of it runs again.
filterEffect(members, term, base, rank, aircraft) ==
    LET result == filterCrewMembers(members, term, base, rank, aircraft)
    IN  /\ filteredCrew' = IF result.threw THEN filteredCrew ELSE result.list
        /\ crewListCrashed' = result.threw

\* The controls of lines 141-291 are in the document.
crewControlsShown == crewListMounted /\ ~crewListCrashed /\ ~crewListLoading

\* lines 50-53, up to the await.
fetchCrewMembers ==
    /\ crewListLoading' = TRUE
    /\ crewListRequests' = crewListRequests + 1

\* lines 42-48, first run: both effects run after the first render.
crewListMount ==
    /\ ~crewListMounted
    /\ crewListMounted' = TRUE
    /\ fetchCrewMembers
    /\ filterEffect(crewMembers, crewSearchTerm, selectedBase, selectedRank,
                    selectedAircraft)
    /\ crewListEvent' = "none"
    /\ toast' = noToast
    /\ UNCHANGED <<crewMembers, crewSearchTerm, selectedBase, selectedRank,
                   selectedAircraft, nonCrewListVars>>

\* line 149: Refresh
refreshCrewMembers ==
    /\ crewControlsShown
    /\ fetchCrewMembers
    /\ crewListEvent' = "none"
    /\ toast' = noToast
    /\ UNCHANGED <<crewMembers, filteredCrew, crewSearchTerm, selectedBase,
                   selectedRank, selectedAircraft, crewListMounted,
                   crewListCrashed, nonCrewListVars>>

\* A handler of a control stored these criteria; the effect of lines 46-48
\* ran in the render that followed, if one of them changed.
criteriaSet(term, base, rank, aircraft) ==
    /\ crewControlsShown
    /\ crewSearchTerm' = term
    /\ selectedBase' = base
    /\ selectedRank' = rank
    /\ selectedAircraft' = aircraft
    /\ IF <<term, base, rank, aircraft>> #
            <<crewSearchTerm, selectedBase, selectedRank, selectedAircraft>>
       THEN filterEffect(crewMembers, term, base, rank, aircraft)
       ELSE UNCHANGED <<filteredCrew, crewListCrashed>>
    /\ toast' = noToast
    /\ UNCHANGED <<crewMembers, crewListLoading, crewListRequests,
                   crewListMounted, nonCrewListVars>>

\* line 170: the search box
setCrewSearchTerm(term) ==
    /\ term # crewSearchTerm
    /\ criteriaSet(term, selectedBase, selectedRank, selectedAircraft)
    /\ crewListEvent' = "none"

\* lines 175-209: the three selects
setSelectedBase(v) ==
    /\ v # selectedBase
    /\ criteriaSet(crewSearchTerm, v, selectedRank, selectedAircraft)
    /\ crewListEvent' = "none"
setSelectedRank(v) ==
    /\ v # selectedRank
    /\ criteriaSet(crewSearchTerm, selectedBase, v, selectedAircraft)
    /\ crewListEvent' = "none"
setSelectedAircraft(v) ==
    /\ v # selectedAircraft
    /\ criteriaSet(crewSearchTerm, selectedBase, selectedRank, v)
    /\ crewListEvent' = "none"

\* lines 91-96 and 210: Clear Filters of the crew list
crewClearFilters ==
    /\ criteriaSet(<<>>, ALL, ALL, ALL)
    /\ crewListEvent' = "clear"

\* lines 54-55 and 59-61: the fetch resolved and its body parsed (`data` is
\* the body of a 2xx answer, or the JSON body of a non-2xx one); the filter
\* effect runs on the new list.
crewListSettled(outcome, data) ==
    /\ crewListMounted /\ ~crewListCrashed
    /\ crewListRequests > 0
    /\ crewMembers' = crewMembersOrEmpty(data)
    /\ crewListLoading' = FALSE
    /\ crewListRequests' = crewListRequests - 1
    /\ filterEffect(crewMembersOrEmpty(data), crewSearchTerm, selectedBase,
                    selectedRank, selectedAircraft)
    /\ crewListEvent' = outcome
    /\ toast' = noToast
    /\ UNCHANGED <<crewSearchTerm, selectedBase, selectedRank, selectedAircraft,
                   crewListMounted, nonCrewListVars>>

\* lines 56-61: the fetch was rejected, or the body is not JSON.
crewListThrew ==
    /\ crewListMounted /\ ~crewListCrashed
    /\ crewListRequests > 0
    /\ crewListLoading' = FALSE
    /\ crewListRequests' = crewListRequests - 1
    /\ crewListEvent' = "throw"
    /\ toast' = "Failed to fetch crew members"
    /\ UNCHANGED <<crewMembers, filteredCrew, crewSearchTerm, selectedBase,
                   selectedRank, selectedAircraft, crewListMounted,
                   crewListCrashed, nonCrewListVars>>

\* lines 32-38
CrewListInit ==
    /\ crewMembers = <<>>
    /\ filteredCrew = <<>>
    /\ crewListLoading = TRUE
    /\ crewSearchTerm = <<>>
    /\ selectedBase = ALL
    /\ selectedRank = ALL
    /\ selectedAircraft = ALL
    /\ crewListRequests = 0
    /\ crewListMounted = FALSE
    /\ crewListCrashed = FALSE
    /\ crewListEvent = "none"

CrewListNext ==
    \/ crewListMount
    \/ refreshCrewMembers
    \/ \E term \in CrewSearchTerms : setCrewSearchTerm(term)
    \/ \E v \in {ALL} \cup getUniqueValues("Base") : setSelectedBase(v)
    \/ \E v \in {ALL} \cup getUniqueValues("Rank") : setSelectedRank(v)
    \/ \E v \in AircraftOptions : setSelectedAircraft(v)
    \/ crewClearFilters
    \/ \E data \in CrewListBodies : crewListSettled("ok", data)
    \/ crewListSettled("http_error", crewListErrorBody)
    \/ crewListThrew

----------------------------------------------------------------------------
(* Index: roster generation, its history and the analytics tab *)

\* A violation of a roster (lines 64-68), by its category.
violationOf(category) ==
    [type |-> "rule", category |-> category, message |-> "broken"]

\* The violation lists of at most MaxViolations violations.
ViolationCategories == {"Rest", "DutyTime"}
ViolationLists ==
    UNION { [1..n -> {violationOf(c) : c \in ViolationCategories}] :
                n \in 0..MaxViolations }

\* Duty windows, as the milliseconds that `new Date(text).getTime()` yields
\* for Duty_Start and Duty_End (lines 226-228).
DutyWindows ==
    << <<0, 0>>, <<0, 1>>, <<1000, 18999>>, <<0, 18000>>, <<0, 522000>>,
       <<1000, 5401000>> >>

\* The i-th flight of a roster (lines 52-62).
flightAt(i, shift) ==
    LET window == DutyWindows[((i + shift) % Len(DutyWindows)) + 1]
    IN  [Flight_Number |-> i, Duty_Start |-> window[1], Duty_End |-> window[2],
         Origin |-> "DEL", Destination |-> "BOM"]

\* The rosters of at most MaxRosterLen flights.
Rosters ==
    { [i \in 1..n |-> flightAt(i, shift)] :
          n \in 0..MaxRosterLen, shift \in 0..(Len(DutyWindows) - 1) }

\* The OptimizationMetrics of a roster (lines 70-80), by its violation_count.
metricsOf(count) == [crew_utilization |-> 80, violation_count |-> count]

\* Bodies of a 2xx answer of POST /api/v1/generate-roster (lines 82-87, 160).
\* The backend asserts violation_count = violations.length; the last two
\* bodies are answers in which it fails to.
GeneratedBodies ==
    { [roster |-> r, violations |-> <<>>, optimization_metrics |-> metricsOf(0)] :
          r \in Rosters }
    \cup { [roster |-> <<flightAt(1, 4)>>, violations |-> v,
            optimization_metrics |-> metricsOf(Len(v))] : v \in ViolationLists }
    \cup { [roster |-> <<flightAt(1, 4)>>, violations |-> <<>>,
            optimization_metrics |-> metricsOf(2)],
           [roster |-> <<flightAt(1, 4)>>, violations |-> <<violationOf("Rest")>>,
            optimization_metrics |-> metricsOf(0)] }

\* data.rosters of a 2xx answer of GET /api/v1/rosters/history (lines 128-130).
DashHistoryBodies ==
    { [rosters |-> <<>>],
      [rosters |-> <<[id |-> 7, violation_count |-> 1]>>] }

\* The JSON body of a non-2xx answer: it has no `rosters`.
dashErrorBody == [detail |-> "Internal Server Error"]

\* line 130: `data.rosters || []`
rostersOrEmpty(data) == IF "rosters" \in DOMAIN data THEN data.rosters ELSE <<>>

\* What the two date inputs can hold (lines 103-104, 307-321).
DateChoices == {"2023-10-01", "2023-10-02"}

\* lines 214-217: the reduce.  `acc` lists the (name, value) pairs in the
\* order the keys were first set, the order Object.entries gives them in.
RECURSIVE countCategories_NoIncrement(_, _)
countCategories_NoIncrement(acc, list) ==
    IF list = <<>> THEN acc
    ELSE LET category == Head(list).category
             known == \E i \in 1..Len(acc) : acc[i].name = category
         IN  countCategories_NoIncrement(
                 IF known THEN acc
                 ELSE Append(acc, [name |-> category, value |-> 1]),
                 Tail(list))
RECURSIVE countCategories(_, _)
countCategories(acc, list) ==
    IF list = <<>> THEN acc
    ELSE LET category == Head(list).category
             known == \E i \in 1..Len(acc) : acc[i].name = category
             next == IF known
                     THEN [i \in 1..Len(acc) |->
                              IF acc[i].name = category
                              THEN [name |-> category, value |-> acc[i].value + 1]
                              ELSE acc[i]]
                     ELSE Append(acc, [name |-> category, value |-> 1])
         IN  countCategories(next, Tail(list))

\* lines 211-220.  `data` is <<>> for null, else <<the roster response>>.
getViolationsByCategory(data) ==
    IF data = <<>> THEN <<>>
    ELSE countCategories(<<>>, data[1].violations)

\* The durations, among those of DutyWindows that lie halfway between two
\* hundredths of an hour, for which the double `hours * 100` of line 231 is
\* below the half: 522000 / 3600000 * 100 is 14.499999999999998.
TiesBelowHalf == {522000}

\* lines 226-231: the hours of one flight, in hundredths of an hour (the
\* number the code returns is this count over 100).  The division and the
\* product are in double precision; they are exact enough to leave every
\* duration on its side of a half, except a duration that is at a half.
\* Math.round rounds a half up.
dutyHundredths_RoundedUp(flight) ==
    (flight.Duty_End - flight.Duty_Start + 35999) \div 36000
dutyHundredths(flight) ==
    LET duration == flight.Duty_End - flight.Duty_Start
        below == duration \div 36000
        rest == duration % 36000
    IN  IF rest < 18000 \/ (rest = 18000 /\ duration \in TiesBelowHalf)
        THEN below
        ELSE below + 1

\* lines 225-234
dutyEntry(flight) ==
    [flight |-> flight.Flight_Number,
     hours |-> dutyHundredths(flight),
     route |-> flight.Origin \o "-" \o flight.Destination]

\* line 236: Array.prototype.slice(0, 10)
firstTen_Nine(list) ==
    SubSeq(list, 1, IF Len(list) < 9 THEN Len(list) ELSE 9)
firstTen(list) ==
    SubSeq(list, 1, IF Len(list) < 10 THEN Len(list) ELSE 10)

\* lines 222-237
getDutyHoursData(data) ==
    IF data = <<>> THEN <<>>
    ELSE firstTen([i \in 1..Len(data[1].roster) |-> dutyEntry(data[1].roster[i])])

\* lines 115-121: the calendar events of a roster.
calendarEvents(roster) ==
    [i \in 1..Len(roster) |->
        [id |-> i - 1, start |-> roster[i].Duty_Start, end |-> roster[i].Duty_End]]

\* A call started by the user or by the mount effect is running.
dashStarted == dashIssued > 0

\* A new call, at its first await.
newCall(pc, arg) == [id |-> dashIssued + 1, pc |-> pc, arg |-> arg, after |-> "none"]

\* The observer of the last step.
DashEventOf(op, outcome) == [op |-> op, outcome |-> outcome]

\* lines 109-111 and 126-128: the mount effect calls fetchRosterHistory.
dashMount ==
    /\ dashIssued = 0
    /\ dashCalls' = dashCalls \cup {newCall("history", "")}
    /\ dashIssued' = dashIssued + 1
    /\ dashEvent' = DashEventOf("mount", "none")
    /\ toast' = noToast
    /\ UNCHANGED <<dashRosterData, rosterHistory, dashLoading, startDate, endDate,
                   events, nonDashVars>>

\* line 618: Refresh of the history
refreshHistory ==
    /\ dashStarted /\ dashIssued < MaxDashCalls
    /\ dashCalls' = dashCalls \cup {newCall("history", "")}
    /\ dashIssued' = dashIssued + 1
    /\ dashEvent' = DashEventOf("refresh", "none")
    /\ toast' = noToast
    /\ UNCHANGED <<dashRosterData, rosterHistory, dashLoading, startDate, endDate,
                   events, nonDashVars>>

\* lines 311 and 320: the date inputs
setStartDate(v) ==
    /\ dashStarted /\ v # startDate
    /\ startDate' = v
    /\ dashEvent' = DashEventOf("dates", "none")
    /\ toast' = noToast
    /\ UNCHANGED <<dashRosterData, rosterHistory, dashLoading, endDate, events,
                   dashCalls, dashIssued, nonDashVars>>
setEndDate(v) ==
    /\ dashStarted /\ v # endDate
    /\ endDate' = v
    /\ dashEvent' = DashEventOf("dates", "none")
    /\ toast' = noToast
    /\ UNCHANGED <<dashRosterData, rosterHistory, dashLoading, startDate, events,
                   dashCalls, dashIssued, nonDashVars>>

\* lines 145-153: the body of the POST
generateRequest ==
    [start_date |-> startDate, end_date |-> endDate,
     optimization_weights |->
         [crew_utilization |-> 10, violation_penalty |-> 20, fairness |-> 5]]

\* lines 137-154 and 325-326: Generate Roster, up to the await.
generateRoster ==
    /\ dashStarted /\ dashIssued < MaxDashCalls
    /\ ~dashLoading
    /\ dashLoading' = TRUE
    /\ dashCalls' = dashCalls \cup {newCall("generate", generateRequest)}
    /\ dashIssued' = dashIssued + 1
    /\ dashEvent' = DashEventOf("generate", "none")
    /\ toast' = noToast
    /\ UNCHANGED <<dashRosterData, rosterHistory, startDate, endDate, events,
                   nonDashVars>>

\* lines 156-165 and 113-124: the answer is 2xx; the roster is stored, the
\* calendar effect runs, and fetchRosterHistory is called and awaited.
generateResolved(c, data) ==
    /\ c \in dashCalls /\ c.pc = "generate"
    /\ dashRosterData' = <<data>>
    /\ events' = calendarEvents(data.roster)
    /\ dashCalls' = (dashCalls \ {c}) \cup
                        {[c EXCEPT !.pc = "history", !.after = "generate"]}
    /\ dashEvent' = DashEventOf("generate", "ok")
    /\ toast' = "Roster generated successfully!"
    /\ UNCHANGED <<rosterHistory, dashLoading, startDate, endDate, dashIssued,
                   nonDashVars>>

\* lines 156-158 and 166-171: the answer is not 2xx, or the fetch was
\* rejected, or the body is not JSON.
generateFailed(c, outcome) ==
    /\ c \in dashCalls /\ c.pc = "generate"
    /\ dashLoading' = FALSE
    /\ dashCalls' = dashCalls \ {c}
    /\ dashEvent' = DashEventOf("generate", outcome)
    /\ toast' = "Failed to generate roster"
    /\ UNCHANGED <<dashRosterData, rosterHistory, startDate, endDate, events,
                   dashIssued, nonDashVars>>

\* lines 174-178 and 649: Delete of a roster of the history, up to the await.
deleteRoster(rosterId) ==
    /\ dashStarted /\ dashIssued < MaxDashCalls
    /\ \E i \in 1..Len(rosterHistory) : rosterHistory[i].id = rosterId
    /\ dashCalls' = dashCalls \cup {newCall("delete", rosterId)}
    /\ dashIssued' = dashIssued + 1
    /\ dashEvent' = DashEventOf("delete", "none")
    /\ toast' = noToast
    /\ UNCHANGED <<dashRosterData, rosterHistory, dashLoading, startDate, endDate,
                   events, nonDashVars>>

\* lines 180-185: the answer is 2xx; fetchRosterHistory is called and awaited.
deleteResolved(c) ==
    /\ c \in dashCalls /\ c.pc = "delete"
    /\ dashCalls' = (dashCalls \ {c}) \cup
                        {[c EXCEPT !.pc = "history", !.after = "delete"]}
    /\ dashEvent' = DashEventOf("delete", "ok")
    /\ toast' = "Roster deleted successfully"
    /\ UNCHANGED <<dashRosterData, rosterHistory, dashLoading, startDate, endDate,
                   events, dashIssued, nonDashVars>>

\* lines 180-182 and 186-189
deleteFailed(c, outcome) ==
    /\ c \in dashCalls /\ c.pc = "delete"
    /\ dashCalls' = dashCalls \ {c}
    /\ dashEvent' = DashEventOf("delete", outcome)
    /\ toast' = "Failed to delete roster"
    /\ UNCHANGED <<dashRosterData, rosterHistory, dashLoading, startDate, endDate,
                   events, dashIssued, nonDashVars>>

\* lines 169-171: what runs when the awaited fetchRosterHistory returns.
afterHistory(c) ==
    dashLoading' = IF c.after = "generate" THEN FALSE ELSE dashLoading

\* lines 129-130: the history fetch resolved and its body parsed (`data` is
\* the body of a 2xx answer, or the JSON body of a non-2xx one).
dashHistorySettled(c, outcome, data) ==
    /\ c \in dashCalls /\ c.pc = "history"
    /\ rosterHistory' = rostersOrEmpty(data)
    /\ afterHistory(c)
    /\ dashCalls' = dashCalls \ {c}
    /\ dashEvent' = DashEventOf("history", outcome)
    /\ toast' = noToast
    /\ UNCHANGED <<dashRosterData, startDate, endDate, events, dashIssued,
                   nonDashVars>>

\* lines 131-134: the history fetch was rejected, or the body is not JSON.
dashHistoryThrew(c) ==
    /\ c \in dashCalls /\ c.pc = "history"
    /\ afterHistory(c)
    /\ dashCalls' = dashCalls \ {c}
    /\ dashEvent' = DashEventOf("history", "throw")
    /\ toast' = "Failed to fetch roster history"
    /\ UNCHANGED <<dashRosterData, rosterHistory, startDate, endDate, events,
                   dashIssued, nonDashVars>>

\* lines 99-107
DashInit ==
    /\ dashRosterData = <<>>
    /\ rosterHistory = <<>>
    /\ dashLoading = FALSE
    /\ startDate = "2023-10-01"
    /\ endDate = "2023-10-01"
    /\ events = <<>>
    /\ dashCalls = {}
    /\ dashIssued = 0
    /\ dashEvent = DashEventOf("none", "none")

DashNext ==
    \/ dashMount
    \/ refreshHistory
    \/ \E v \in DateChoices : setStartDate(v)
    \/ \E v \in DateChoices : setEndDate(v)
    \/ generateRoster
    \/ \E c \in dashCalls, data \in GeneratedBodies : generateResolved(c, data)
    \/ \E c \in dashCalls, o \in {"http_error", "throw"} : generateFailed(c, o)
    \/ \E i \in 1..Len(rosterHistory) : deleteRoster(rosterHistory[i].id)
    \/ \E c \in dashCalls : deleteResolved(c)
    \/ \E c \in dashCalls, o \in {"http_error", "throw"} : deleteFailed(c, o)
    \/ \E c \in dashCalls, data \in DashHistoryBodies :
           dashHistorySettled(c, "ok", data)
    \/ \E c \in dashCalls : dashHistorySettled(c, "http_error", dashErrorBody)
    \/ \E c \in dashCalls : dashHistoryThrew(c)

----------------------------------------------------------------------------
(* RosterView: the roster history and the details of one roster *)

\* An item of the history (lines 34-41).
historyItem(id, count) == [id |-> id, violation_count |-> count]

\* data.rosters of a 2xx answer of GET /api/v1/rosters/history (line 62).
ViewHistoryBodies ==
    { [rosters |-> <<>>],
      [rosters |-> <<historyItem(7, 1)>>],
      [rosters |-> <<historyItem(9, 0), historyItem(7, 1)>>] }

\* The JSON body of a non-2xx answer: it has neither `rosters` nor
\* `roster_data`.
viewErrorBody == [detail |-> "Internal Server Error"]

\* Bodies of a 2xx answer of GET /api/v1/rosters/{rosterId} (lines 43-46, 80).
DetailsBodies(rosterId) ==
    { [roster_id |-> rosterId, roster_data |-> r] :
          r \in {<<>>, <<flightAt(1, 0)>>} }

\* line 64: `data.rosters && data.rosters.length > 0`
hasRosters(data) == "rosters" \in DOMAIN data /\ Len(data.rosters) > 0

\* lines 118 and 215-221: the render reads selectedRoster.roster_data.map
\* when neither spinner is shown and a roster is selected; it throws when
\* the stored body has no roster_data.
renderThrows(pending, detailsPending, selected) ==
    /\ ~pending /\ ~detailsPending
    /\ selected # <<>>
    /\ "roster_data" \notin DOMAIN selected[1]

\* lines 118-124: the view, and not the spinner, is on screen.
viewShown == viewIssued > 0 /\ ~viewLoading /\ ~viewCrashed

\* The observer of the last step: the handler, the outcome of its fetch and
\* the number of items of the collection the answer carried.
ViewEventOf(op, outcome, items) == [op |-> op, outcome |-> outcome, items |-> items]

\* lines 54-56 and 58-61: the mount effect calls fetchRosterHistory.
rosterViewMount ==
    /\ viewIssued = 0
    /\ viewLoading' = TRUE
    /\ viewCalls' = Append(viewCalls, [pc |-> "history", arg |-> 0])
    /\ viewIssued' = viewIssued + 1
    /\ viewEvent' = ViewEventOf("mount", "none", 0)
    /\ toast' = noToast
    /\ UNCHANGED <<viewRosterHistory, selectedRoster, detailsLoading, viewCrashed,
                   nonRosterViewVars>>

\* lines 136 and 58-61: Refresh calls fetchRosterHistory, up to the await.
rosterViewRefresh ==
    /\ viewShown /\ viewIssued < MaxViewCalls
    /\ viewLoading' = TRUE
    /\ viewCalls' = Append(viewCalls, [pc |-> "history", arg |-> 0])
    /\ viewIssued' = viewIssued + 1
    /\ viewEvent' = ViewEventOf("refresh", "none", 0)
    /\ toast' = noToast
    /\ UNCHANGED <<viewRosterHistory, selectedRoster, detailsLoading, viewCrashed,
                   nonRosterViewVars>>

\* lines 160 and 77-79: a click on an item of the history calls
\* fetchRosterDetails, up to the await.
fetchRosterDetails(rosterId) ==
    /\ viewShown /\ viewIssued < MaxViewCalls
    /\ \E i \in 1..Len(viewRosterHistory) : viewRosterHistory[i].id = rosterId
    /\ detailsLoading' = TRUE
    /\ viewCalls' = Append(viewCalls, [pc |-> "details", arg |-> rosterId])
    /\ viewIssued' = viewIssued + 1
    /\ viewEvent' = ViewEventOf("select", "none", 0)
    /\ toast' = noToast
    /\ UNCHANGED <<viewRosterHistory, selectedRoster, viewLoading, viewCrashed,
                   nonRosterViewVars>>

\* lines 62-68 and 72-74: the history fetch resolved and its body parsed.
\* Only a non-empty data.rosters is stored, and then the details of its first
\* item are fetched (lines 77-79, not awaited); `finally` clears loading.
viewHistorySettled(i, outcome, data) ==
    /\ ~viewCrashed
    /\ i \in 1..Len(viewCalls) /\ viewCalls[i].pc = "history"
    /\ IF hasRosters(data)
       THEN /\ viewRosterHistory' = data.rosters
            /\ detailsLoading' = TRUE
            /\ viewCalls' = Append(RemoveAt(viewCalls, i),
                                   [pc |-> "details", arg |-> data.rosters[1].id])
       ELSE /\ viewCalls' = RemoveAt(viewCalls, i)
            /\ UNCHANGED <<viewRosterHistory, detailsLoading>>
    /\ viewLoading' = FALSE
    /\ viewCrashed' = renderThrows(FALSE, detailsLoading', selectedRoster)
    /\ viewEvent' = ViewEventOf("history", outcome, Len(rostersOrEmpty(data)))
    /\ toast' = noToast
    /\ UNCHANGED <<selectedRoster, viewIssued, nonRosterViewVars>>

\* lines 69-74: the history fetch was rejected, or the body is not JSON.
viewHistoryThrew(i) ==
    /\ ~viewCrashed
    /\ i \in 1..Len(viewCalls) /\ viewCalls[i].pc = "history"
    /\ viewCalls' = RemoveAt(viewCalls, i)
    /\ viewLoading' = FALSE
    /\ viewCrashed' = renderThrows(FALSE, detailsLoading, selectedRoster)
    /\ viewEvent' = ViewEventOf("history", "throw", 0)
    /\ toast' = "Failed to fetch roster history"
    /\ UNCHANGED <<viewRosterHistory, selectedRoster, detailsLoading, viewIssued,
                   nonRosterViewVars>>

\* lines 80-82 and 86-88: the details fetch resolved and its body parsed; the
\* body is stored whatever the status of the answer was.
viewDetailsSettled(i, outcome, data) ==
    /\ ~viewCrashed
    /\ i \in 1..Len(viewCalls) /\ viewCalls[i].pc = "details"
    /\ selectedRoster' = <<data>>
    /\ detailsLoading' = FALSE
    /\ viewCalls' = RemoveAt(viewCalls, i)
    /\ viewCrashed' = renderThrows(viewLoading, FALSE, <<data>>)
    /\ viewEvent' = ViewEventOf("details", outcome, 0)
    /\ toast' = noToast
    /\ UNCHANGED <<viewRosterHistory, viewLoading, viewIssued, nonRosterViewVars>>

\* lines 83-88: the details fetch was rejected, or the body is not JSON.
viewDetailsThrew(i) ==
    /\ ~viewCrashed
    /\ i \in 1..Len(viewCalls) /\ viewCalls[i].pc = "details"
    /\ detailsLoading' = FALSE
    /\ viewCalls' = RemoveAt(viewCalls, i)
    /\ viewCrashed' = renderThrows(viewLoading, FALSE, selectedRoster)
    /\ viewEvent' = ViewEventOf("details", "throw", 0)
    /\ toast' = "Failed to fetch roster details"
    /\ UNCHANGED <<viewRosterHistory, selectedRoster, viewLoading, viewIssued,
                   nonRosterViewVars>>

\* lines 49-52
RosterViewInit ==
    /\ viewRosterHistory = <<>>
    /\ selectedRoster = <<>>
    /\ viewLoading = TRUE
    /\ detailsLoading = FALSE
    /\ viewCalls = <<>>
    /\ viewIssued = 0
    /\ viewCrashed = FALSE
    /\ viewEvent = ViewEventOf("none", "none", 0)

RosterViewNext ==
    \/ rosterViewMount
    \/ rosterViewRefresh
    \/ \E i \in 1..Len(viewRosterHistory) :
           fetchRosterDetails(viewRosterHistory[i].id)
    \/ \E i \in 1..Len(viewCalls), data \in ViewHistoryBodies :
           viewHistorySettled(i, "ok", data)
    \/ \E i \in 1..Len(viewCalls) : viewHistorySettled(i, "http_error", viewErrorBody)
    \/ \E i \in 1..Len(viewCalls) : viewHistoryThrew(i)
    \/ \E i \in 1..Len(viewCalls) :
           viewCalls[i].pc = "details" /\
           \E data \in DetailsBodies(viewCalls[i].arg) :
               viewDetailsSettled(i, "ok", data)
    \/ \E i \in 1..Len(viewCalls) : viewDetailsSettled(i, "http_error", viewErrorBody)
    \/ \E i \in 1..Len(viewCalls) : viewDetailsThrew(i)

----------------------------------------------------------------------------
Init ==
    /\ ChatInit
    /\ CrewInit
    /\ FlightsInit
    /\ CrewListInit
    /\ DashInit
    /\ RosterViewInit
    /\ toast = noToast

\* The chat alone.
ChatSpec == Init /\ [][ChatNext]_vars

\* The await of lines 60-71 ends: the request in flight is answered or
\* rejected.
chatSettles ==
    \/ \E data \in ChatReplies : chatResolved(data)
    \/ chatHttpError
    \/ chatThrew

\* The chat under the assumption that every request issued eventually
\* completes or fails.
\* The texts of the chat with the fairness assumption: what is staged has
\* no part in whether a request settles, so one blank and one non-blank
\* typed text stand for all.
LiveTexts == { <<" ">>, <<"a">> }

ChatLiveNext ==
    \/ \E t \in LiveTexts : setCurrentMessage(t)
    \/ handleSendMessage
    \/ chatSettles
    \/ \E a \in RenderedActions : handleSuggestedAction(a)
    \/ clearChat

ChatLiveSpec == Init /\ [][ChatLiveNext]_vars /\ WF_vars(chatSettles)

\* The crew detail drill-down alone.
CrewSpec == Init /\ [][CrewNext]_vars

\* The flights list alone.
FlightsSpec == Init /\ [][FlightsNext]_vars

\* The crew list alone.
CrewListSpec == Init /\ [][CrewListNext]_vars

\* The Index view alone.
DashSpec == Init /\ [][DashNext]_vars

\* The roster view alone.
RosterViewSpec == Init /\ [][RosterViewNext]_vars

----------------------------------------------------------------------------
(* Properties of the disruption chat *)

\* A text that is empty or consists of whitespace only.
AllSpaces(t) == \A i \in 1..Len(t) : t[i] = " "

\* The chat handlers that resume after the awaited request has settled.
ChatSettledOps == {"ok", "http_error", "throw"}

\* C1: a submit called while pending is a no-op: the message list, the
\* pending flag and the staged text are unchanged and no request is issued,
\* whatever the staged text is.
C1_SubmitWhilePendingIsNoOp ==
    [][ (chatEvent'.op = "submit" /\ isLoading) =>
            /\ messages' = messages
            /\ isLoading' = isLoading
            /\ currentMessage' = currentMessage
            /\ chatRequests' = chatRequests
            /\ chatIssued' = chatIssued ]_vars

\* C1 witness: handleSendMessage ran while pending on a non-blank text.
C1_Witness ==
    /\ chatEvent.op = "submit" /\ chatEvent.loading /\ ~chatEvent.blank
    /\ isLoading /\ ~AllSpaces(currentMessage)

\* C2: a submit of an empty or whitespace-only text is a no-op: the message
\* list and the pending flag are unchanged and no request is issued.
C2_BlankSubmitIsNoOp ==
    [][ (chatEvent'.op = "submit" /\ AllSpaces(currentMessage)) =>
            /\ messages' = messages
            /\ isLoading' = isLoading
            /\ chatRequests' = chatRequests
            /\ chatIssued' = chatIssued ]_vars

\* C2 witness: handleSendMessage ran, not pending, on a whitespace-only text.
C2_Witness ==
    /\ chatEvent.op = "submit" /\ chatEvent.blank /\ ~chatEvent.loading
    /\ currentMessage # <<>> /\ AllSpaces(currentMessage)

\* C3: an accepted submit (non-blank text, not pending) appends exactly one
\* user message carrying the raw text to the end of the list in the same
\* step, sets pending, and issues exactly one request whose message is that
\* raw text and whose context is empty.
C3_AcceptedSubmit ==
    [][ (chatEvent'.op = "submit" /\ ~isLoading /\ ~AllSpaces(currentMessage)) =>
            /\ messages' =
                   Append(messages, [ type |-> "user", content |-> currentMessage,
                                      suggestedActions |-> UNDEFINED ])
            /\ isLoading' = TRUE
            /\ chatRequests' =
                   Append(chatRequests, [ message |-> currentMessage, context |-> <<>> ])
            /\ chatIssued' = chatIssued + 1 ]_vars

\* C3 witness: a text with surrounding whitespace was accepted and is the
\* last message, with its request in flight.
C3_Witness ==
    /\ chatEvent.op = "submit" /\ ~chatEvent.loading /\ ~chatEvent.blank
    /\ messages[Len(messages)].type = "user"
    /\ messages[Len(messages)].content = <<" ", "a", " ">>
    /\ isLoading /\ Len(chatRequests) = 1

\* C4: when the request completes with a 2xx answer, exactly one assistant
\* message built from the answer's `response` and `suggested_actions` is
\* appended to the end of the list and pending becomes false.
C4_SuccessAppendsReply ==
    [][ chatEvent'.op = "ok" =>
            /\ messages' =
                   Append(messages,
                          [ type |-> "bot", content |-> chatEvent'.data.response,
                            suggestedActions |-> chatEvent'.data.suggested_actions ])
            /\ isLoading' = FALSE
            /\ Len(chatRequests') = Len(chatRequests) - 1 ]_vars

\* C4 witness: a reply carrying suggested actions was appended after the
\* user's message.
C4_Witness ==
    /\ chatEvent.op = "ok" /\ ~isLoading
    /\ Len(messages) >= 3
    /\ messages[Len(messages) - 1].type = "user"
    /\ messages[Len(messages)].content = <<"reply-1">>
    /\ messages[Len(messages)].suggestedActions = <<"view_roster", "escalate">>

\* C5: when the request fails (it is rejected, its body cannot be read, or
\* the answer is non-2xx), exactly one assistant message with the fixed
\* apology is appended, pending becomes false, the earlier messages stay and
\* no further request is issued.
C5_FailureAppendsApology ==
    [][ chatEvent'.op \in {"http_error", "throw"} =>
            /\ messages' =
                   Append(messages, [ type |-> "bot", content |-> apology,
                                      suggestedActions |-> UNDEFINED ])
            /\ isLoading' = FALSE
            /\ chatIssued' = chatIssued
            /\ Len(chatRequests') = Len(chatRequests) - 1 ]_vars

\* C6: reset replaces the list by the single seed greeting and leaves the
\* pending flag and the request in flight untouched; the answer to a request
\* that was in flight at the reset is still appended, after the greeting:
\* the reply for a 2xx answer, the apology for a rejected request.
C6_ResetKeepsRequestInFlight ==
    [][ /\ chatEvent'.op = "reset" =>
               /\ messages' = <<seedMessage>>
               /\ isLoading' = isLoading
               /\ chatRequests' = chatRequests
               /\ chatIssued' = chatIssued
        /\ (messages = <<seedMessage>> /\ chatEvent'.op \in ChatSettledOps) =>
               /\ Len(messages') = 2
               /\ messages'[1] = seedMessage
               /\ messages'[2].type = "bot"
               /\ chatEvent'.op = "ok" =>
                      messages'[2].content = chatEvent'.data.response
               /\ chatEvent'.op = "throw" => messages'[2].content = apology ]_vars

\* C6 witness: the list is the greeting followed by an assistant message
\* alone, which takes a reset between the submit and its answer.
C6_Witness ==
    /\ chatEvent.op \in {"ok", "throw"}
    /\ Len(messages) = 2
    /\ messages[1] = seedMessage
    /\ messages[2].type = "bot"
    /\ chatIssued >= 1

----------------------------------------------------------------------------
(* Properties of the crew detail drill-down *)

\* The outcomes of a fetch that the specification calls a failure.
FailedOutcomes == {"http_error", "throw"}

\* The detail view shows its tabs (lines 433-452).
detailsDisplayed == isModalOpen /\ ~loading /\ crewDetails # NULL

\* The crew `c` is on the flight `f`.
OnFlight(f, c) == \E i \in 1..Len(f.Crew_Members) : f.Crew_Members[i].Crew_ID = c

\* C7: when a second crew member is selected while the fetches of the first
\* are in flight, then once every fetch has resolved each section the newest
\* load wrote reflects the selected crew member: no result of the older load
\* has overwritten it.
C7_NewestSelectionWins ==
    loads = {} =>
        /\ "profile" \in latestWrote => crewDetails = selectedCrewId
        /\ "schedule" \in latestWrote =>
               schedule \in {scheduleOf[selectedCrewId], <<>>}
        /\ "preferences" \in latestWrote =>
               preferences \in {preferencesOf[selectedCrewId], <<>>}
        /\ "flights" \in latestWrote =>
               \A i \in 1..Len(flightAssignments) :
                   OnFlight(flightAssignments[i], selectedCrewId)

\* C8: in a load whose profile fetch succeeded, a failed sub-fetch (schedule,
\* preferences, or the history or roster fetch of the flight derivation)
\* leaves its own section empty, not holding data of an earlier load.
C8_FailedSectionIsEmpty ==
    crewEvent.outcome \in FailedOutcomes =>
        /\ crewEvent.op = "schedule" => schedule = <<>>
        /\ crewEvent.op = "preferences" => preferences = <<>>
        /\ crewEvent.op \in {"history", "roster"} => flightAssignments = <<>>

\* C9: when the profile fetch of the load of the current selection fails,
\* the view ends in a failed state that displays no profile, schedule,
\* preferences or flight assignments.
C9_ProfileFailureShowsNothing ==
    ( /\ crewEvent.op = "crew"
      /\ crewEvent.outcome \in FailedOutcomes
      /\ crewEvent.newest
      /\ loads = {} ) => ~detailsDisplayed

----------------------------------------------------------------------------
(* Properties of the flights list *)

\* C10: when a call of fetchFlights is issued before an earlier one has
\* resolved, then once both have resolved, in any order, the flights and the
\* total on display are those of the response of the later call: the
\* response of the earlier call is discarded when it arrives last.
C10_NewestResponseIsShown ==
    (flightRequests = {} /\ newestResponse # <<>>) =>
        /\ flights = newestResponse[1].flights
        /\ totalFlights = newestResponse[1].total

----------------------------------------------------------------------------
(* Properties of the crew list *)

\* Every criterion of the crew list is unconstrained.
Unconstrained(term, base, rank, aircraft) ==
    term = <<>> /\ base = ALL /\ rank = ALL /\ aircraft = ALL

SatisfiesSearch(crew, term) ==
    \/ term = <<>>
    \/ "Name" \in DOMAIN crew /\ includes(toLowerCase(crew.Name), toLowerCase(term))
    \/ "Crew_ID" \in DOMAIN crew
         /\ includes(toLowerCase(crew.Crew_ID), toLowerCase(term))
SatisfiesBase(crew, base) ==
    base = ALL \/ ("Base" \in DOMAIN crew /\ crew.Base = base)
SatisfiesRank(crew, rank) ==
    rank = ALL \/ ("Rank" \in DOMAIN crew /\ crew.Rank = rank)
SatisfiesAircraft(crew, aircraft) ==
    \/ aircraft = ALL
    \/ "Aircraft_Type_License" \in DOMAIN crew
         /\ includes(crew.Aircraft_Type_License, aircraft)
SatisfiesAll(crew) ==
    /\ SatisfiesSearch(crew, crewSearchTerm)
    /\ SatisfiesBase(crew, selectedBase)
    /\ SatisfiesRank(crew, selectedRank)
    /\ SatisfiesAircraft(crew, selectedAircraft)

\* The members of a list.
Members(list) == {list[i] : i \in 1..Len(list)}

\* The results of applying each criterion of the view alone to its list.
AloneResults ==
    { filterCrewMembers(crewMembers, crewSearchTerm, ALL, ALL, ALL).list,
      filterCrewMembers(crewMembers, <<>>, selectedBase, ALL, ALL).list,
      filterCrewMembers(crewMembers, <<>>, ALL, selectedRank, ALL).list,
      filterCrewMembers(crewMembers, <<>>, ALL, ALL, selectedAircraft).list }

\* C12: for any crew list and any combination of search text, base, rank and
\* aircraft, the filtered list holds exactly the members that satisfy every
\* active criterion: it is the intersection of the results of applying each
\* criterion alone.
C12_FilterConjunction ==
    (crewListMounted /\ ~crewListCrashed) =>
        /\ filteredCrew = SelectSeq(crewMembers, SatisfiesAll)
        /\ filteredCrew =
               SelectSeq(crewMembers,
                         LAMBDA crew : \A r \in AloneResults : crew \in Members(r))
C12_Witness ==
    /\ crewListMounted /\ ~crewListCrashed
    /\ selectedBase = DEL /\ selectedRank = Captain
    /\ crewMembers = <<crewBo, crewAn, crewNoName>>
    /\ filteredCrew = <<crewAn>>

\* `s` is a subsequence of `t`: `t` with some items left out.
RECURSIVE IsSubsequence(_, _)
IsSubsequence(s, t) ==
    IF s = <<>> THEN TRUE
    ELSE IF t = <<>> THEN FALSE
    ELSE IF Head(s) = Head(t) /\ IsSubsequence(Tail(s), Tail(t)) THEN TRUE
    ELSE IsSubsequence(s, Tail(t))

\* C13: the filtered list is a subsequence of the input list: the matching
\* members keep their relative order, and none is duplicated or re-sorted.
C13_FilterStability ==
    ~crewListCrashed => IsSubsequence(filteredCrew, crewMembers)
C13_Witness ==
    /\ ~crewListCrashed
    /\ selectedBase = DEL
    /\ crewMembers = <<crewBo, crewNoName, crewAn>>
    /\ filteredCrew = <<crewBo, crewAn>>

\* C14: the filter is total: a member that lacks a filtered field does not
\* match an active criterion on that field and is left out; filtering never
\* throws, and the other members are filtered as usual.
C14_FilterIsTotal ==
    crewListMounted =>
        /\ ~crewListCrashed
        /\ filteredCrew = SelectSeq(crewMembers, SatisfiesAll)

----------------------------------------------------------------------------
(* Properties of the analytics of the Index view *)

\* The violations and the flights of the roster on display; none when no
\* roster was generated.
shownViolations == IF dashRosterData = <<>> THEN <<>> ELSE dashRosterData[1].violations
shownRoster == IF dashRosterData = <<>> THEN <<>> ELSE dashRosterData[1].roster

\* The sum of the counts of a histogram.
RECURSIVE SumOfValues(_)
SumOfValues(histogram) ==
    IF histogram = <<>> THEN 0
    ELSE Head(histogram).value + SumOfValues(Tail(histogram))

\* C15: violations-by-category counts every violation exactly once: each
\* (category, count) pair has the number of violations of that category, the
\* categories are distinct, the counts add up to the number of violations,
\* and no violation gives the empty histogram.
C15_HistogramCountsOnce ==
    LET histogram == getViolationsByCategory(dashRosterData)
    IN  /\ \A i \in 1..Len(histogram) :
               histogram[i].value =
                   Cardinality({k \in 1..Len(shownViolations) :
                                   shownViolations[k].category = histogram[i].name})
        /\ \A i, j \in 1..Len(histogram) :
               histogram[i].name = histogram[j].name => i = j
        /\ SumOfValues(histogram) = Len(shownViolations)
        /\ shownViolations = <<>> => histogram = <<>>
C15_Witness ==
    /\ shownViolations =
           <<violationOf("Rest"), violationOf("Rest"), violationOf("DutyTime")>>
    /\ getViolationsByCategory(dashRosterData) =
           <<[name |-> "Rest", value |-> 2], [name |-> "DutyTime", value |-> 1]>>

\* C16, as the code has it: for every flight whose duty does not end before
\* it starts, the hours value is at least 0 and is (Duty_End - Duty_Start)
\* / 3600000 rounded to two decimal places (a value halfway between two
\* hundredths goes to either); it is 0 for equal timestamps, and greater than
\* 0 when the duty lasts more than 18 seconds.
C16_DutyHoursRounded ==
    \A i \in 1..Len(getDutyHoursData(dashRosterData)) :
        LET flight == shownRoster[i]
            duration == flight.Duty_End - flight.Duty_Start
            hundredths == getDutyHoursData(dashRosterData)[i].hours
        IN  duration >= 0 =>
                /\ hundredths >= 0
                /\ 36000 * hundredths - 18000 <= duration
                /\ duration <= 36000 * hundredths + 18000
                /\ duration = 0 => hundredths = 0
                /\ duration > 18000 => hundredths > 0
C16_Witness ==
    /\ \E i \in 1..Len(getDutyHoursData(dashRosterData)) :
           /\ shownRoster[i].Duty_Start < shownRoster[i].Duty_End
           /\ getDutyHoursData(dashRosterData)[i].hours = 0
    /\ \E i \in 1..Len(getDutyHoursData(dashRosterData)) :
           /\ shownRoster[i].Duty_End - shownRoster[i].Duty_Start = 5400000
           /\ getDutyHoursData(dashRosterData)[i].hours = 150

\* C16, as stated: for every flight with Duty_Start < Duty_End the hours
\* value is strictly greater than 0.
C16_PositiveDutyHasPositiveHours ==
    \A i \in 1..Len(getDutyHoursData(dashRosterData)) :
        shownRoster[i].Duty_Start < shownRoster[i].Duty_End =>
            getDutyHoursData(dashRosterData)[i].hours > 0

\* C17: the duty-hours result is the first min(10, n) entries of the
\* per-flight list of an n-flight roster, in roster order, one entry per
\* flight; without a roster it is the empty list.
C17_FirstTenInOrder ==
    LET result == getDutyHoursData(dashRosterData)
    IN  /\ Len(result) = IF Len(shownRoster) < 10 THEN Len(shownRoster) ELSE 10
        /\ \A i \in 1..Len(result) :
               result[i].flight = shownRoster[i].Flight_Number
        /\ dashRosterData = <<>> => result = <<>>
C17_Witness ==
    /\ Len(shownRoster) = 11
    /\ Len(getDutyHoursData(dashRosterData)) = 10
    /\ getDutyHoursData(dashRosterData)[10].flight = shownRoster[10].Flight_Number

----------------------------------------------------------------------------
(* Properties of the failure handling and of the loading flags *)

\* C18: a non-2xx answer to a backend call is a failure: the failure path of
\* the call runs (for the chat, the error toast is raised and the fallback
\* apology is appended) and nothing of the view is filled from the body of
\* that answer.
C18_NonOkIsFailure ==
    chatEvent.op = "http_error" =>
        /\ toast = "Failed to send message"
        /\ messages[Len(messages)].content = apology

\* C19: when a list fetch fails, the view that issued it raises a
\* notification and falls back to an empty or error state: it does not keep
\* on display the collection fetched before.
C19_FailedListFetchDegrades ==
    [][ (\E r \in flightRequests : flightsThrew(r)) =>
            /\ toast' # noToast
            /\ flights' = <<>>
            /\ filteredFlights' = <<>> ]_vars

\* C20: the loading flag of a view is true in every state in which a fetch
\* of that view is outstanding; in the flights list it stays true until the
\* last outstanding fetch has resolved.
C20_LoadingWhileOutstanding ==
    flightRequests # {} => flightsLoading

----------------------------------------------------------------------------
(* Properties of the roster view *)

\* C21: a fetch that succeeds with an empty collection replaces what the
\* view displayed before by the empty collection: after a roster-history
\* fetch of the roster view has succeeded with zero items, the displayed
\* history is empty.
C21_EmptyFetchShowsEmpty ==
    (viewEvent.op = "history" /\ viewEvent.outcome = "ok" /\ viewEvent.items = 0)
        => viewRosterHistory = <<>>

----------------------------------------------------------------------------
(* Properties of the generated roster's summary *)

\* The summary of a roster and its detail disagree on the number of
\* violations.
countMismatch(data) ==
    data # <<>> /\
    data[1].optimization_metrics.violation_count # Len(data[1].violations)

\* C22: when the violation_count of a roster's summary differs from the
\* length of its violations list, the step that puts the roster on display
\* raises a data-integrity warning: a notification other than the one of a
\* successful generation.
C22_MismatchIsFlagged ==
    [][ (dashRosterData' # dashRosterData /\ countMismatch(dashRosterData'))
            => toast' \notin {noToast, "Roster generated successfully!"} ]_vars

----------------------------------------------------------------------------
(* Further properties of the disruption chat *)

\* The three known action ids and the query each one stands for.
KnownActions == {"analyze_disruption", "view_roster", "check_compliance"}
CannedQuery(action) ==
    CASE action = "analyze_disruption" ->
             <<"Please analyze the current disruption situation and provide recommendations.">>
      [] action = "view_roster" ->
             <<"Show me the current roster status and any conflicts.">>
      [] action = "check_compliance" ->
             <<"Check DGCA compliance for the current roster assignments.">>

\* C23: handleSuggestedAction with one of the three known action ids stages
\* the corresponding canned query in the input box and does nothing else:
\* the message list and the pending flag are unchanged and no chat request
\* is issued.
C23_SuggestedActionOnlyStages ==
    [][ \A action \in KnownActions :
            handleSuggestedAction(action) =>
                /\ currentMessage' = CannedQuery(action)
                /\ UNCHANGED <<messages, isLoading, chatRequests, chatIssued>> ]_vars

\* A suggested action was selected while a request was in flight and its
\* query is staged.
C23_Witness ==
    /\ chatEvent.op = "suggested"
    /\ isLoading
    /\ Len(chatRequests) = 1
    /\ currentMessage = CannedQuery("view_roster")

\* s is a prefix of t.
IsPrefix(s, t) == Len(s) <= Len(t) /\ SubSeq(t, 1, Len(s)) = s

\* C24: the message list is append-only between resets: every step other
\* than a reset leaves the earlier list a prefix of the new one; and in every
\* reachable state the list is non-empty and starts with the seed greeting.
C24_AppendOnlyBetweenResets ==
    /\ [](Len(messages) > 0 /\ messages[1] = seedMessage)
    /\ [][ chatEvent'.op # "reset" => IsPrefix(messages, messages') ]_vars

\* Two submits were answered, one by a reply and one by the apology, with no
\* reset in between: the list holds the greeting and four more messages.
C24_Witness ==
    /\ Len(messages) = 5
    /\ messages[1] = seedMessage
    /\ messages[2].type = "user" /\ messages[4].type = "user"
    /\ messages[5] = errorMessage

\* The number of messages of the list that are of the type `type`.
CountOfType(type) == Cardinality({ i \in 1..Len(messages) : messages[i].type = type })

\* C28: at most one chat request is in flight, and the pending flag is true
\* exactly when one is; so the user messages of the list exceed the
\* assistant messages appended after the greeting by at most one.
C28_OneRequestInFlight ==
    /\ Len(chatRequests) <= 1
    /\ isLoading <=> Len(chatRequests) = 1
    /\ CountOfType("user") - (CountOfType("bot") - 1) <= 1

\* The first submit was answered and the second is in flight.
C28_Witness ==
    /\ chatIssued = 2
    /\ isLoading /\ Len(chatRequests) = 1
    /\ CountOfType("user") = 2
    /\ CountOfType("bot") = 2

\* C29: if every request issued eventually completes or fails, a pending
\* chat eventually stops being pending, and the step that ends the pending
\* state of a submit appends exactly one message, an assistant message.
C29_PendingEnds ==
    /\ isLoading ~> ~isLoading
    /\ [][ (isLoading /\ ~isLoading') =>
               /\ Len(messages') = Len(messages) + 1
               /\ SubSeq(messages', 1, Len(messages)) = messages
               /\ messages'[Len(messages')].type = "bot" ]_vars

\* A submit was accepted and answered: the chat is idle again and the list
\* ends with the user's message and the assistant message for it.
C29_Witness ==
    /\ chatEvent.op \in ChatSettledOps
    /\ ~isLoading /\ chatRequests = <<>>
    /\ Len(messages) >= 3
    /\ messages[Len(messages) - 1].type = "user"
    /\ messages[Len(messages)].type = "bot"

----------------------------------------------------------------------------
(* Further properties of the crew detail drill-down *)

\* The entries of `list` that have the crew `c` among their crew, in the
\* order of `list`.
RECURSIVE AssignedTo(_, _)
AssignedTo(list, c) ==
    IF list = <<>> THEN <<>>
    ELSE (IF OnFlight(Head(list), c) THEN <<Head(list)>> ELSE <<>>)
             \o AssignedTo(Tail(list), c)

\* C25: the flight assignments derived for a crew id X from the body of the
\* latest roster are exactly the entries of roster_data that have X among
\* their Crew_Members, in roster order; a body without roster_data yields
\* the empty list.
C25_AssignmentsOfCrew ==
    [][ \A L \in loads :
            (L.pc = "roster" /\ L \notin loads') =>
                \A body \in RosterBodies \cup {rosterErrorBody} :
                    (\E o \in {"ok", "http_error"} : rosterSettled(L, o, body)) =>
                        flightAssignments' =
                            IF body.has_roster_data
                            THEN AssignedTo(body.roster_data, L.crewId)
                            ELSE <<>> ]_vars

\* The load of C2 derived its assignments from a roster that has a flight
\* with C2 and a flight without.
C25_Witness ==
    /\ selectedCrewId = "C2"
    /\ loads = {}
    /\ "flights" \in latestWrote
    /\ flightAssignments = <<rosterFlights[1]>>

\* The call L of fetchCrewDetails ran with no other call beside it, and this
\* step ends it with a fetch that did not fail.
completesAlone(L) ==
    /\ loads = {L} /\ ~L.overlapped
    /\ loads' = {} /\ loading' = FALSE
    /\ crewEvent'.outcome \notin FailedOutcomes

\* C26: when a load for the crew X completes and no other selection was made
\* during it, every populated section belongs to X: the profile, if any, is
\* the one of X and every flight assignment has X among its crew, whatever
\* was loaded before.
C26_SectionsBelongToCrew ==
    [][ \A L \in loads :
            completesAlone(L) =>
                /\ crewDetails' \in {NULL, L.crewId}
                /\ \A i \in 1..Len(flightAssignments') :
                       OnFlight(flightAssignments'[i], L.crewId) ]_vars

\* C27: when a load for the crew X completes, the number of violation
\* entries on display is the violation_count of the first entry of the
\* schedule fetched in that load, and 0 when that schedule is empty.
C27_ViolationsMatchSchedule ==
    [][ \A L \in loads :
            completesAlone(L) =>
                Len(violations') =
                    IF schedule' = <<>> THEN 0 ELSE schedule'[1].violation_count ]_vars

----------------------------------------------------------------------------
(* Further properties of the flights list *)

\* C30: once the fetches issued have completed, the current page lies
\* between 1 and max(1, totalPages), where totalPages is ceil(total / 20);
\* and every request in flight asks for the offset of a page from 1 on.
C30_PageWithinRange ==
    /\ \A r \in flightRequests :
           \E page \in 1..(MaxFetches + 1) :
               <<"offset", toString((page - 1) * 20)>> \in r.params
    /\ (flightsIssued > 0 /\ flightRequests = {}) =>
           /\ 1 <= currentPage
           /\ currentPage <= (IF totalPages > 1 THEN totalPages ELSE 1)

====
